---- MODULE Spec2Model ----
(***************************************************************************)
(* midi-clip-splitter: the decode -> merge/filter -> split -> export       *)
(* pipeline (parser.ts, transform.ts, ExportPanel.handleExport).           *)
(*                                                                         *)
(* Time representation.  splitEventsBySteps computes                       *)
(*   ticksPerStep = ppq * 4 / stepsPerBar,  maxTicks = maxSteps *          *)
(*   ticksPerStep                                                          *)
(* in floating point, so window bounds and re-based ticks need not be      *)
(* integers.  The model keeps them exact: every time inside a clip is      *)
(* stored multiplied by stepsPerBar (a "scaled tick"), so that             *)
(*   maxTicks      is  maxSteps * ppq * 4          scaled,                 *)
(*   maxTicks - 1  is  maxSteps * ppq * 4 - stepsPerBar  scaled,           *)
(* and a clip time is a whole number of ticks iff it is divisible by       *)
(* stepsPerBar.  The stepsPerBar values drawn are powers of two, for       *)
(* which the floating-point computation is exact as well.                  *)
(***************************************************************************)
EXTENDS Integers, Sequences, FiniteSets, TLC

VARIABLES
    pc,          \* position in the pipeline
    midi,        \* the @tonejs/midi object decoded from the uploaded file
    parsedMidi,  \* ParsedMIDI: [tracks, duration, ppq]
    configs,     \* Map<string, OutputTrackConfig>, in insertion order
    settings,    \* SplitSettings: [stepsPerBar, maxStepsPerClip, ppq]
    exported,    \* per bus handled by handleExport: merged stream, clips, files
    currentChunkStart, \* splitEventsBySteps: start of the next window (scaled ticks)
    lifecycleMap,      \* splitEventsBySteps: the noteLifecycles map built before the loop
    assigned,    \* TrackInspector: the outputId of the last handleAssignmentChange per track
    player,      \* the fields of the MidiPlayer object
    timeouts,    \* ids of the window.setTimeout callbacks that are pending
    currentTime, \* audioContext.currentTime
    played,      \* the instrument.play calls of the playback pass: <<track, event>>
    missed,      \* the events whose time went by while their track was inaudible
    hook         \* useMidiPlayer: its state, playerRef and the initPlayer calls in flight

\* the state of the user interface around the pipeline
uiVars == <<assigned, player, timeouts, currentTime, played, missed, hook>>

vars == <<pc, midi, parsedMidi, configs, settings, exported, currentChunkStart,
          lifecycleMap, uiVars>>

\* no track assigned through the inspector, no player object, nothing playing
UiAtRest ==
    /\ assigned = <<>>
    /\ player = <<>>
    /\ timeouts = {}
    /\ currentTime = 0
    /\ played = {}
    /\ missed = {}
    /\ hook = <<>>

(***************************************************************************)
(* Bounds of the model                                                     *)
(***************************************************************************)
MaxTick == 4
MaxNotes == 2

\* constants.ts
TIME_SIGNATURE_NUMERATOR == 4

\* an absent optional field (channel?, note?, ...) and `undefined`
Undefined == 0 - 1

\* provenance of a synthesized event (no source object)
NoSrc == <<>>

(***************************************************************************)
(* Generic helpers                                                         *)
(***************************************************************************)
Last(s) == s[Len(s)]

RECURSIVE Flatten(_)
Flatten(ss) == IF ss = <<>> THEN <<>> ELSE Head(ss) \o Flatten(Tail(ss))

\* faulty variant: x goes in front of the elements of equal time (an unstable sort)
RECURSIVE InsertByTimeBeforeEqual(_, _)
InsertByTimeBeforeEqual(sorted, x) ==
    IF sorted = <<>> THEN <<x>>
    ELSE IF Last(sorted).absoluteTime < x.absoluteTime
         THEN Append(sorted, x)
         ELSE Append(InsertByTimeBeforeEqual(SubSeq(sorted, 1, Len(sorted) - 1), x),
                     Last(sorted))

\* x inserted behind every element whose time is <= its own
RECURSIVE InsertByTime(_, _)
InsertByTime(sorted, x) ==
    IF sorted = <<>> THEN <<x>>
    ELSE IF Last(sorted).absoluteTime <= x.absoluteTime
         THEN Append(sorted, x)
         ELSE Append(InsertByTime(SubSeq(sorted, 1, Len(sorted) - 1), x), Last(sorted))

\* faulty variant: the sort is left out
SortByTimeOmitted(s) == s

\* Array.prototype.sort((a, b) => a.absoluteTime - b.absoluteTime): stable
RECURSIVE SortByTime(_)
SortByTime(s) ==
    IF s = <<>> THEN <<>>
    ELSE InsertByTime(SortByTime(SubSeq(s, 1, Len(s) - 1)), Last(s))

\* let lastTime = 0; forEach: deltaTime = absoluteTime - lastTime
RecalcDelta(s) ==
    [i \in 1..Len(s) |->
        [s[i] EXCEPT !.deltaTime =
            s[i].absoluteTime - (IF i = 1 THEN 0 ELSE s[i - 1].absoluteTime)]]

(***************************************************************************)
(* parser.ts: parseMIDIFile                                                *)
(*                                                                         *)
(* A @tonejs/midi track is [channel, notes, controlChanges]; a note is     *)
(* [ticks, durationTicks, midi, velocity] and a control change is          *)
(* [number, ticks, value].  Ticks are integers in the file, so Math.round  *)
(* leaves them as they are; velocity and value are held as the 7-bit       *)
(* number n that @tonejs/midi exposes as n / 127 and the parser turns back *)
(* into Math.round(n / 127 * 127) = n.  controlChanges is listed in the    *)
(* order of Object.entries.                                                *)
(***************************************************************************)
NoteOnOf(note, channel) ==
    [type |-> "noteOn", deltaTime |-> 0, absoluteTime |-> note.ticks,
     channel |-> channel, note |-> note.midi, velocity |-> note.velocity,
     controller |-> Undefined, value |-> Undefined, program |-> Undefined,
     src |-> NoSrc]

NoteOffOf(note, channel) ==
    [type |-> "noteOff", deltaTime |-> 0,
     absoluteTime |-> note.ticks + note.durationTicks,
     channel |-> channel, note |-> note.midi, velocity |-> 0,
     controller |-> Undefined, value |-> Undefined, program |-> Undefined,
     src |-> NoSrc]

CCOf(cc, channel) ==
    [type |-> "cc", deltaTime |-> 0, absoluteTime |-> cc.ticks,
     channel |-> channel, note |-> Undefined, velocity |-> Undefined,
     controller |-> cc.number, value |-> cc.value, program |-> Undefined,
     src |-> NoSrc]

\* the events pushed for one track, before the sort
RawTrackEvents(track) ==
    Flatten([i \in 1..Len(track.notes) |->
                <<NoteOnOf(track.notes[i], track.channel),
                  NoteOffOf(track.notes[i], track.channel)>>])
    \o [i \in 1..Len(track.controlChanges) |->
                CCOf(track.controlChanges[i], track.channel)]

\* src names the event object: <<index of its track (from 0), place in it>>
Tagged(events, index) ==
    [i \in 1..Len(events) |-> [events[i] EXCEPT !.src = <<index, i>>]]

ParseTrack(track, index) ==
    [index  |-> index,
     events |-> Tagged(RecalcDelta(SortByTime(RawTrackEvents(track))), index)]

LastTime(events) == IF events = <<>> THEN 0 ELSE Last(events).absoluteTime

MaxOf(S) ==
    IF S = {} THEN 0
    ELSE LET x == CHOOSE y \in S : \A z \in S : z <= y IN x

parseMIDIFile(m) ==
    LET tracks == [i \in 1..Len(m.tracks) |-> ParseTrack(m.tracks[i], i - 1)]
    IN  [header   |-> [ppq |-> m.ppq, trackCount |-> Len(m.tracks)],
         tracks   |-> tracks,
         duration |-> MaxOf({LastTime(tracks[i].events) : i \in 1..Len(tracks)})]

(***************************************************************************)
(* parser.ts: calculateSteps, ticksToSteps                                 *)
(* ticks / ticksPerStep = ticks * stepsPerBar / (ppq * 4)                  *)
(***************************************************************************)
calculateSteps(ticks, ppq, stepsPerBar) ==
    LET d == ppq * TIME_SIGNATURE_NUMERATOR
    IN  (ticks * stepsPerBar + d - 1) \div d

ticksToSteps(ticks, ppq, stepsPerBar) ==
    (ticks * stepsPerBar) \div (ppq * TIME_SIGNATURE_NUMERATOR)

(***************************************************************************)
(* transform.ts: mergeTracks                                               *)
(* An absent channelFilter is the empty list: both switch the filter off.  *)
(***************************************************************************)
InList(x, list) == \E i \in 1..Len(list) : list[i] = x

\* faulty variant: only events that carry a channel are tested against the list
DroppedByChannelFilterDefinedOnly(event, config) ==
    /\ Len(config.channelFilter) > 0
    /\ event.channel # Undefined
    /\ ~InList(event.channel, config.channelFilter)

DroppedByChannelFilter(event, config) ==
    /\ Len(config.channelFilter) > 0
    /\ (event.channel = Undefined \/ ~InList(event.channel, config.channelFilter))

\* faulty variant: programChange events are dropped whatever the flag says
DroppedByProgramStripAlways(event, config) ==
    event.type = "programChange"

DroppedByProgramStrip(event, config) ==
    config.stripProgramChange /\ event.type = "programChange"

\* faulty variant: only sysex counts as unsupported
DroppedAsUnsupportedSysexOnly(event) ==
    event.type = "sysex"

DroppedAsUnsupported(event) ==
    event.type = "sysex" \/ event.type = "unknown"

\* faulty variant: the channel filter is not applied
MergeKeepsAnyChannel(event, config) ==
    /\ ~(config.stripProgramChange /\ event.type = "programChange")
    /\ ~(event.type = "sysex" \/ event.type = "unknown")

MergeKeeps(event, config) ==
    /\ ~DroppedByChannelFilter(event, config)
    /\ ~DroppedByProgramStrip(event, config)
    /\ ~DroppedAsUnsupported(event)

\* tracks[trackIndex], undefined (no events pushed) outside the array
TrackEventsAt(tracks, trackIndex) ==
    IF trackIndex + 1 \in 1..Len(tracks) THEN tracks[trackIndex + 1].events ELSE <<>>

FilterEvents(events, config) ==
    LET Keep(e) == MergeKeeps(e, config) IN SelectSeq(events, Keep)

\* the pushes, in the order of config.sourceTracks and of each track
CollectEvents(tracks, config) ==
    Flatten([k \in 1..Len(config.sourceTracks) |->
        FilterEvents(TrackEventsAt(tracks, config.sourceTracks[k]), config)])

mergeTracks(tracks, config) ==
    RecalcDelta(SortByTime(CollectEvents(tracks, config)))

\* faulty variant: mergedEvents.push(event), the merged array holds the event
\* objects of the tracks themselves
SharedWithTracksNoCopy(tracks, config) ==
    {CollectEvents(tracks, config)[i].src : i \in 1..Len(CollectEvents(tracks, config))}

\* mergedEvents.push({ ...event }): every element of the merged array is a new
\* object, so the array shares no object with the tracks
SharedWithTracks(tracks, config) == {}

\* the tracks after mergeTracks has run: `event.deltaTime = ...` is written to
\* the elements of the merged array and reaches a track's event only where
\* the object is shared
TracksAfterMerge(tracks, config) ==
    LET merged == mergeTracks(tracks, config)
        shared == SharedWithTracks(tracks, config)
        NewDelta(e) ==
            IF e.src \in shared
            THEN merged[CHOOSE i \in 1..Len(merged) : merged[i].src = e.src].deltaTime
            ELSE e.deltaTime
    IN  [t \in 1..Len(tracks) |->
            [tracks[t] EXCEPT !.events =
                [i \in 1..Len(tracks[t].events) |->
                    [tracks[t].events[i] EXCEPT !.deltaTime = NewDelta(tracks[t].events[i])]]]]

(***************************************************************************)
(* transform.ts: splitEventsBySteps                                        *)
(*                                                                         *)
(* noteKey `${channel}-${note}` is held as <<channel, note>>: channel and  *)
(* note are non-negative integers on every noteOn/noteOff, for which       *)
(* noteKey.split('-').map(Number) gives back exactly the two numbers.      *)
(* noteLifecycles is a Map, so its entries are kept in insertion order; a  *)
(* lifecycle holds the places of its noteOn and noteOff in `events`, with  *)
(* off = 0 for a missing noteOff.                                          *)
(***************************************************************************)
NoteKey(event) == <<event.channel, event.note>>

KeyPlace(map, key) ==
    IF \E k \in 1..Len(map) : map[k].key = key
    THEN CHOOSE k \in 1..Len(map) : map[k].key = key
    ELSE 0

\* noteLifecycles.get(noteKey).push({ noteOn: event })
PushNoteOn(map, key, i) ==
    LET k == KeyPlace(map, key) IN
    IF k = 0
    THEN Append(map, [key |-> key, list |-> <<[on |-> i, off |-> 0]>>])
    ELSE [map EXCEPT ![k].list = Append(@, [on |-> i, off |-> 0])]

\* the noteOff goes to the last lifecycle of its key, when that has none yet
AttachNoteOff(map, key, i) ==
    LET k == KeyPlace(map, key) IN
    IF k = 0 THEN map
    ELSE LET n == Len(map[k].list) IN
         IF n > 0 /\ map[k].list[n].off = 0
         THEN [map EXCEPT ![k].list[n].off = i]
         ELSE map

RECURSIVE LifecyclesUpTo(_, _)
LifecyclesUpTo(events, n) ==
    IF n = 0 THEN <<>>
    ELSE LET map == LifecyclesUpTo(events, n - 1)
             e   == events[n]
         IN  IF e.type = "noteOn" THEN PushNoteOn(map, NoteKey(e), n)
             ELSE IF e.type = "noteOff" THEN AttachNoteOff(map, NoteKey(e), n)
             ELSE map

noteLifecycles(events) == LifecyclesUpTo(events, Len(events))

\* times of a lifecycle, scaled by stepsPerBar
OnTime(events, lc, stepsPerBar) == events[lc.on].absoluteTime * stepsPerBar
OffTime(events, lc, stepsPerBar) == events[lc.off].absoluteTime * stepsPerBar

noteStartsBeforeChunk(events, lc, start, stepsPerBar) ==
    OnTime(events, lc, stepsPerBar) < start

noteEndsAfterChunkStart(events, lc, start, stepsPerBar) ==
    lc.off = 0 \/ OffTime(events, lc, stepsPerBar) > start

\* faulty variant: a noteOff exactly at the chunk end counts as inside the chunk
noteEndsStrictlyAfterChunkEnd(events, lc, chunkEnd, stepsPerBar) ==
    lc.off = 0 \/ events[lc.off].absoluteTime * stepsPerBar > chunkEnd

noteEndsAfterChunkEnd(events, lc, chunkEnd, stepsPerBar) ==
    lc.off = 0 \/ OffTime(events, lc, stepsPerBar) >= chunkEnd

\* the lifecycle gets a synthetic noteOn at the start of the chunk
NeedsNoteOn(events, lc, start, stepsPerBar) ==
    /\ noteStartsBeforeChunk(events, lc, start, stepsPerBar)
    /\ noteEndsAfterChunkStart(events, lc, start, stepsPerBar)

\* faulty variant: only a note that starts in the chunk is closed at its end
ContinuesStartedHere(events, lc, start, chunkEnd, stepsPerBar) ==
    /\ events[lc.on].absoluteTime * stepsPerBar >= start
    /\ events[lc.on].absoluteTime * stepsPerBar < chunkEnd
    /\ (lc.off = 0 \/ events[lc.off].absoluteTime * stepsPerBar >= chunkEnd)

\* the lifecycle puts its key into notesToContinue
Continues(events, lc, start, chunkEnd, stepsPerBar) ==
    \/ /\ NeedsNoteOn(events, lc, start, stepsPerBar)
       /\ noteEndsAfterChunkEnd(events, lc, chunkEnd, stepsPerBar)
    \/ /\ OnTime(events, lc, stepsPerBar) >= start
       /\ OnTime(events, lc, stepsPerBar) < chunkEnd
       /\ noteEndsAfterChunkEnd(events, lc, chunkEnd, stepsPerBar)

\* faulty variant: the synthetic noteOn gets the velocity written for the noteOff
SyntheticNoteOnZeroVelocity(noteOn) ==
    [type |-> "noteOn", deltaTime |-> 0, absoluteTime |-> 0,
     channel |-> noteOn.channel, note |-> noteOn.note, velocity |-> 0,
     controller |-> Undefined, value |-> Undefined, program |-> Undefined,
     src |-> NoSrc]

SyntheticNoteOn(noteOn) ==
    [type |-> "noteOn", deltaTime |-> 0, absoluteTime |-> 0,
     channel |-> noteOn.channel, note |-> noteOn.note, velocity |-> noteOn.velocity,
     controller |-> Undefined, value |-> Undefined, program |-> Undefined,
     src |-> NoSrc]

\* at absoluteTime maxTicks - 1
SyntheticNoteOff(key, maxTicks, stepsPerBar) ==
    [type |-> "noteOff", deltaTime |-> 0, absoluteTime |-> maxTicks - stepsPerBar,
     channel |-> key[1], note |-> key[2], velocity |-> 0,
     controller |-> Undefined, value |-> Undefined, program |-> Undefined,
     src |-> NoSrc]

\* first pass: the events of the window, re-based
CopiedEvents(events, start, chunkEnd, stepsPerBar) ==
    LET InWindow(e) == /\ e.absoluteTime * stepsPerBar >= start
                       /\ e.absoluteTime * stepsPerBar < chunkEnd
        inside == SelectSeq(events, InWindow)
    IN  [i \in 1..Len(inside) |->
            [inside[i] EXCEPT !.absoluteTime = inside[i].absoluteTime * stepsPerBar - start,
                              !.deltaTime = inside[i].deltaTime * stepsPerBar]]

\* second pass: one synthetic noteOn per lifecycle sounding at the chunk start
SyntheticNoteOns(events, map, start, stepsPerBar) ==
    Flatten([k \in 1..Len(map) |->
        LET Needs(lc) == NeedsNoteOn(events, lc, start, stepsPerBar)
            sounding == SelectSeq(map[k].list, Needs)
        IN  [j \in 1..Len(sounding) |-> SyntheticNoteOn(events[sounding[j].on])]])

\* notesToContinue: a Set of keys, in insertion order
notesToContinue(events, map, start, chunkEnd, stepsPerBar) ==
    LET Open(entry) == \E j \in 1..Len(entry.list) :
                          Continues(events, entry.list[j], start, chunkEnd, stepsPerBar)
        open == SelectSeq(map, Open)
    IN  [k \in 1..Len(open) |-> open[k].key]

ChunkEvents(events, map, start, maxTicks, stepsPerBar) ==
    LET chunkEnd == start + maxTicks
        keys == notesToContinue(events, map, start, chunkEnd, stepsPerBar)
    IN  RecalcDelta(SortByTime(
            CopiedEvents(events, start, chunkEnd, stepsPerBar)
            \o SyntheticNoteOns(events, map, start, stepsPerBar)
            \o [k \in 1..Len(keys) |-> SyntheticNoteOff(keys[k], maxTicks, stepsPerBar)]))

\* while (currentChunkStart < totalTicks)
RECURSIVE ChunksFrom(_, _, _, _, _, _)
ChunksFrom(events, map, start, totalTicks, maxTicks, stepsPerBar) ==
    IF start < totalTicks
    THEN <<ChunkEvents(events, map, start, maxTicks, stepsPerBar)>>
         \o ChunksFrom(events, map, start + maxTicks, totalTicks, maxTicks, stepsPerBar)
    ELSE <<>>

\* the input stream with its times written in scaled ticks
ScaledEvents(events, stepsPerBar) ==
    [i \in 1..Len(events) |->
        [events[i] EXCEPT !.absoluteTime = events[i].absoluteTime * stepsPerBar,
                          !.deltaTime = events[i].deltaTime * stepsPerBar]]

\* faulty variant: a stream that ends exactly at maxTicks goes through the window loop
splitEventsByStepsStrict(events, maxSteps, ppq, stepsPerBar) ==
    IF Len(events) = 0 THEN << <<>> >>
    ELSE LET maxTicks   == maxSteps * ppq * TIME_SIGNATURE_NUMERATOR
             totalTicks == events[Len(events)].absoluteTime * stepsPerBar
         IN  IF totalTicks < maxTicks
             THEN <<ScaledEvents(events, stepsPerBar)>>
             ELSE ChunksFrom(events, noteLifecycles(events), 0, totalTicks,
                             maxTicks, stepsPerBar)

splitEventsBySteps(events, maxSteps, ppq, stepsPerBar) ==
    IF Len(events) = 0 THEN << <<>> >>
    ELSE LET maxTicks   == maxSteps * ppq * TIME_SIGNATURE_NUMERATOR
             totalTicks == Last(events).absoluteTime * stepsPerBar
         IN  IF totalTicks <= maxTicks
             THEN <<ScaledEvents(events, stepsPerBar)>>
             ELSE ChunksFrom(events, noteLifecycles(events), 0, totalTicks,
                             maxTicks, stepsPerBar)

(***************************************************************************)
(* writer.ts: writeMIDIFile                                                *)
(*                                                                         *)
(* The function fills a track of a new @tonejs/midi Midi object and        *)
(* returns midi.toArray().  The library keeps a note as [midi, ticks,      *)
(* durationTicks, velocity]; the `time` and `duration` that addNote is     *)
(* given are seconds, which the setters turn into ticks with               *)
(* header.secondsToTicks: Math.round(seconds / (60 / bpm) * header.ppq),   *)
(* where the header of a new Midi() has ppq 480 and setTempo(tempo) makes  *)
(* bpm = tempo.  The writer passes time = absoluteTime / ppq.              *)
(*                                                                         *)
(* Event times arrive in scaled ticks (times stepsPerBar), so seconds are  *)
(* the fraction time / (ppq * stepsPerBar).  A note carries two fields     *)
(* that the library object does not have: `event`, the place in `events`   *)
(* of the noteOn it was made from, and `noteOffTime`, the result of        *)
(* findNextNoteOff as a sequence (empty for undefined).                    *)
(***************************************************************************)
\* header.ppq of new Midi()
LibraryPPQ == 480

\* tempo = 120
DefaultTempo == 120

\* Math.round(a / b) for b > 0
RoundDiv(a, b) == (2 * a + b) \div (2 * b)

\* header.secondsToTicks(num / den)
secondsToTicks(num, den) == RoundDiv(num * DefaultTempo * LibraryPPQ, 60 * den)

MinOf(S) == CHOOSE x \in S : \A y \in S : x <= y

\* noteOffsByKey.get(key), as the set of its times
NoteOffTimes(events, key) ==
    {events[i].absoluteTime : i \in {j \in 1..Len(events) :
        /\ events[j].type = "noteOff"
        /\ events[j].note # Undefined
        /\ events[j].channel # Undefined
        /\ NoteKey(events[j]) = key}}

\* the first noteOff time > noteOnTime of the sorted array
findNextNoteOff(times, noteOnTime) ==
    LET later == {t \in times : t > noteOnTime}
    IN  IF later = {} THEN <<>> ELSE <<MinOf(later)>>

\* insert(array, x, "ticks"): behind the elements whose ticks are <= its own
RECURSIVE InsertByTicks(_, _)
InsertByTicks(sorted, x) ==
    IF sorted = <<>> THEN <<x>>
    ELSE IF Last(sorted).ticks <= x.ticks
         THEN Append(sorted, x)
         ELSE Append(InsertByTicks(SubSeq(sorted, 1, Len(sorted) - 1), x), Last(sorted))

\* the note that track.addNote is called with for the noteOn events[i]
WrittenNote(events, i, den) ==
    LET event       == events[i]
        noteOffTime == findNextNoteOff(NoteOffTimes(events, NoteKey(event)),
                                       event.absoluteTime)
        ticks       == secondsToTicks(event.absoluteTime, den)
    IN  [midi          |-> event.note,
         ticks         |-> ticks,
         durationTicks |-> IF noteOffTime # <<>> /\ noteOffTime[1] # 0
                           THEN secondsToTicks(noteOffTime[1] - event.absoluteTime, den)
                           ELSE secondsToTicks(1, 4),
         velocity      |-> event.velocity,
         event         |-> i,
         noteOffTime   |-> noteOffTime]

\* processedNotes.has(uniqueKey) when events[i] is reached
AlreadyProcessed(events, i) ==
    \E j \in 1..(i - 1) :
        /\ events[j].type = "noteOn"
        /\ events[j].note # Undefined
        /\ events[j].velocity # Undefined
        /\ events[j].channel # Undefined
        /\ NoteKey(events[j]) = NoteKey(events[i])
        /\ events[j].absoluteTime = events[i].absoluteTime

\* one turn of events.forEach(event => { switch (event.type) ... })
WriteEvent(track, events, i, den) ==
    LET event == events[i]
        ticks == secondsToTicks(event.absoluteTime, den)
    IN  IF event.type = "noteOn"
        THEN IF /\ event.note # Undefined /\ event.velocity # Undefined
                /\ event.channel # Undefined
                /\ ~AlreadyProcessed(events, i)
             THEN [track EXCEPT !.notes = InsertByTicks(@, WrittenNote(events, i, den))]
             ELSE track
        ELSE IF event.type = "cc"
        THEN IF event.controller # Undefined /\ event.value # Undefined
             THEN [track EXCEPT !.controlChanges =
                     InsertByTicks(@, [number |-> event.controller, ticks |-> ticks,
                                       value |-> event.value, event |-> i])]
             ELSE track
        ELSE IF event.type = "programChange"
        THEN IF event.program # Undefined
             THEN [track EXCEPT !.instrument = event.program]
             ELSE track
        ELSE IF event.type = "pitchBend"
        THEN IF event.value # Undefined
             THEN [track EXCEPT !.pitchBends =
                     InsertByTicks(@, [ticks |-> ticks, value |-> event.value,
                                       event |-> i])]
             ELSE track
        ELSE track

\* midi.addTrack(): instrument.number is 0 until it is set
NewTrack == [notes |-> <<>>, controlChanges |-> <<>>, pitchBends |-> <<>>,
             instrument |-> 0]

RECURSIVE WriteUpTo(_, _, _)
WriteUpTo(events, n, den) ==
    IF n = 0 THEN NewTrack
    ELSE WriteEvent(WriteUpTo(events, n - 1, den), events, n, den)

\* the track of the Midi object that is serialised
writeMIDIFile(events, ppq, stepsPerBar) ==
    WriteUpTo(events, Len(events), ppq * stepsPerBar)

(***************************************************************************)
(* What the library does with the notes of that track: midi.toArray()      *)
(* writes a noteOn at ticks and a noteOff at ticks + durationTicks for     *)
(* every note and sorts the track's events by time (stable);               *)
(* new Midi(bytes) takes the noteOns in file order and gives each the      *)
(* first unused noteOff of its pitch that is not earlier, dropping a       *)
(* noteOn that finds none.                                                 *)
(***************************************************************************)
EncodedNoteEvents(track) ==
    SortByTime(Flatten([k \in 1..Len(track.notes) |->
        <<[type |-> "noteOn", absoluteTime |-> track.notes[k].ticks,
           midi |-> track.notes[k].midi],
          [type |-> "noteOff",
           absoluteTime |-> track.notes[k].ticks + track.notes[k].durationTicks,
           midi |-> track.notes[k].midi]>>]))

RECURSIVE DecodeFrom(_, _)
DecodeFrom(noteOns, noteOffs) ==
    IF noteOns = <<>> THEN <<>>
    ELSE LET currentNote == Head(noteOns)
             fits == {k \in 1..Len(noteOffs) :
                         /\ noteOffs[k].midi = currentNote.midi
                         /\ noteOffs[k].absoluteTime >= currentNote.absoluteTime}
         IN  IF fits = {} THEN DecodeFrom(Tail(noteOns), noteOffs)
             ELSE LET offIndex == MinOf(fits)
                      rest == [k \in 1..(Len(noteOffs) - 1) |->
                                 IF k < offIndex THEN noteOffs[k] ELSE noteOffs[k + 1]]
                  IN  <<[midi |-> currentNote.midi,
                         ticks |-> currentNote.absoluteTime,
                         durationTicks |-> noteOffs[offIndex].absoluteTime
                                              - currentNote.absoluteTime]>>
                      \o DecodeFrom(Tail(noteOns), rest)

\* the notes of new Midi(midi.toArray()).tracks[0]
DecodedNotes(track) ==
    LET IsOn(e) == e.type = "noteOn"
        IsOff(e) == e.type = "noteOff"
    IN  DecodeFrom(SelectSeq(EncodedNoteEvents(track), IsOn),
                   SelectSeq(EncodedNoteEvents(track), IsOff))

(***************************************************************************)
(* ExportPanel.handleExport                                                *)
(***************************************************************************)
\* the ExportFile pushed for clip `index` (from 0) of a bus
ExportFileOf(trackId, events, nClips, index, duration, st) ==
    LET startStep == index * st.maxStepsPerClip
        endStep   == LET a == startStep + st.maxStepsPerClip
                         b == ticksToSteps(duration, st.ppq, st.stepsPerBar)
                     IN  IF a <= b THEN a ELSE b
    IN  [trackId    |-> trackId,
         data       |-> writeMIDIFile(events, st.ppq, st.stepsPerBar),
         splitIndex |-> IF nClips > 1 THEN index + 1 ELSE Undefined,
         stepRange  |-> [start |-> startStep, end |-> endStep]]

\* one turn of the loop over configs.entries(); a bus whose merged stream is
\* empty is skipped and leaves no record
ExportOfBus(pm, config, st) ==
    LET mergedEvents == mergeTracks(pm.tracks, config)
        splitEvents  == splitEventsBySteps(mergedEvents, st.maxStepsPerClip,
                                           st.ppq, st.stepsPerBar)
    IN  IF Len(mergedEvents) = 0 THEN <<>>
        ELSE <<[trackId      |-> config.outputId,
                mergedEvents |-> mergedEvents,
                splitEvents  |-> splitEvents,
                files        |-> [i \in 1..Len(splitEvents) |->
                                     ExportFileOf(config.outputId, splitEvents[i],
                                                  Len(splitEvents), i - 1,
                                                  pm.duration, st)]]>>

\* faulty variant: the loop over the buses ends at the first empty merged stream
ExportAllStopAtEmpty(pm, cfgs, st) ==
    LET Empty(k) == ExportOfBus(pm, cfgs[k], st) = <<>>
        stop == IF \E k \in 1..Len(cfgs) : Empty(k)
                THEN CHOOSE k \in 1..Len(cfgs) :
                         Empty(k) /\ \A j \in 1..(k - 1) : ~Empty(j)
                ELSE Len(cfgs) + 1
    IN  Flatten([k \in 1..(stop - 1) |-> ExportOfBus(pm, cfgs[k], st)])

ExportAll(pm, cfgs, st) ==
    Flatten([k \in 1..Len(cfgs) |-> ExportOfBus(pm, cfgs[k], st)])

(***************************************************************************)
(* SummaryPanel: the numbers shown before the export                       *)
(***************************************************************************)
\* calculateSteps(parsedMidi.duration, settings.ppq, settings.stepsPerBar)
totalSteps(pm, st) == calculateSteps(pm.duration, st.ppq, st.stepsPerBar)

\* Math.ceil(totalSteps / settings.maxStepsPerClip), shown for every bus
clipsNeeded(pm, st) ==
    (totalSteps(pm, st) + st.maxStepsPerClip - 1) \div st.maxStepsPerClip

\* "Total Files": configs.size * clipsNeeded
totalFiles(cfgs, pm, st) == Len(cfgs) * clipsNeeded(pm, st)

(***************************************************************************)
(* Inputs                                                                  *)
(***************************************************************************)
\* the pitch of every note drawn
Pitch == 60
\* a velocity per (ticks, durationTicks), so that different notes of a track
\* carry different velocities
VelocityOf(ticks, durationTicks) == 64 + 8 * ticks + durationTicks

Notes ==
    {[ticks |-> t, durationTicks |-> d, midi |-> Pitch, velocity |-> VelocityOf(t, d)] :
        t \in 0..(MaxTick - 1), d \in 1..MaxTick}

NotesInRange == {n \in Notes : n.ticks + n.durationTicks <= MaxTick}

\* @tonejs/midi keeps the notes of a track ordered by ticks
NoteLists ==
    {ns \in UNION {[1..k -> NotesInRange] : k \in 0..MaxNotes} :
        \A i \in 1..(Len(ns) - 1) : ns[i].ticks <= ns[i + 1].ticks}

CCLists ==
    {<<>>} \cup {<<[number |-> 7, ticks |-> t, value |-> 100]>> : t \in 0..MaxTick}

\* two tracks, track i on channel i; at most MaxNotes notes in the file and at
\* most one control change, on the first track
TonejsTracks ==
    {[channel |-> 0, notes |-> ns, controlChanges |-> ccs] :
        ns \in NoteLists, ccs \in CCLists}

Files ==
    {[ppq |-> 1,
      tracks |-> <<t0, [t1 EXCEPT !.channel = 1]>>] :
        t0 \in TonejsTracks,
        t1 \in {t \in TonejsTracks : t.controlChanges = <<>>}}

BoundedFiles ==
    {f \in Files : Len(f.tracks[1].notes) + Len(f.tracks[2].notes) <= MaxNotes}

Bus(id, sourceTracks) ==
    [outputId |-> id, sourceTracks |-> sourceTracks,
     channelFilter |-> <<>>, stripProgramChange |-> FALSE]

\* assignments that TrackInspector.handleAssignmentChange can produce
ConfigChoices ==
    { <<Bus("A", <<0>>)>>, <<Bus("A", <<1>>)>>,
      <<Bus("A", <<0, 1>>)>>, <<Bus("A", <<1, 0>>)>>,
      <<Bus("A", <<0>>), Bus("B", <<1>>)>>,
      <<Bus("B", <<1>>), Bus("A", <<0>>)>> }

\* stepsPerBar and maxStepsPerClip as entered in SplitSettings
SettingsChoices ==
    {[stepsPerBar |-> spb, maxStepsPerClip |-> ms, ppq |-> 480] :
        spb \in {2, 4, 8}, ms \in {1, 3}}

NoFile == [header |-> [ppq |-> 0, trackCount |-> 0], tracks |-> <<>>, duration |-> 0]

(***************************************************************************)
(* The pipeline                                                            *)
(***************************************************************************)
Init ==
    /\ pc = "file"
    /\ midi \in BoundedFiles
    /\ parsedMidi = NoFile
    /\ configs \in ConfigChoices
    /\ settings \in SettingsChoices
    /\ exported = <<>>
    /\ currentChunkStart = 0
    /\ lifecycleMap = <<>>
    /\ UiAtRest

\* Index.handleFileSelect: parseMIDIFile, then ppq taken from the file
ParseMIDIFile ==
    /\ pc = "file"
    /\ parsedMidi' = parseMIDIFile(midi)
    /\ settings' = [settings EXCEPT !.ppq = parsedMidi'.header.ppq]
    /\ pc' = "parsed"
    /\ UNCHANGED <<uiVars, midi, configs, exported, currentChunkStart, lifecycleMap>>

HandleExport ==
    /\ pc = "parsed"
    /\ Len(configs) > 0
    /\ exported' = ExportAll(parsedMidi, configs, settings)
    /\ pc' = "exported"
    /\ UNCHANGED <<uiVars, midi, parsedMidi, configs, settings, currentChunkStart, lifecycleMap>>

Next == ParseMIDIFile \/ HandleExport

Spec == Init /\ [][Next]_vars

(***************************************************************************)
(* mergeTracks over the whole MIDIEvent type                               *)
(*                                                                         *)
(* parseMIDIFile yields noteOn, noteOff and cc events only, and            *)
(* TrackInspector never sets channelFilter or stripProgramChange.          *)
(* mergeTracks is written for every MIDIEvent and every OutputTrackConfig, *)
(* so its filters are exercised on tracks and configs drawn from those     *)
(* types: events of the other kinds, events without a channel, a channel   *)
(* allow-list and the strip flag.                                          *)
(***************************************************************************)
MaxTrackEvents == 2

TypedEvent(type, channel, time) ==
    [type |-> type, deltaTime |-> 0, absoluteTime |-> time, channel |-> channel,
     note |-> IF type = "noteOn" THEN Pitch ELSE Undefined,
     velocity |-> IF type = "noteOn" THEN 100 ELSE Undefined,
     controller |-> Undefined, value |-> Undefined,
     program |-> IF type = "programChange" THEN 5 ELSE Undefined,
     src |-> NoSrc]

TypedEvents ==
    {TypedEvent(type, ch, t) : type \in {"noteOn", "programChange"}, ch \in {0, 1},
                               t \in {0, 1}}
    \cup {TypedEvent(type, Undefined, t) : type \in {"meta", "sysex", "unknown"},
                                           t \in {0, 1}}

\* the events of a track are sorted by absoluteTime, as the decoder leaves them
TypedEventLists ==
    {es \in UNION {[1..k -> TypedEvents] : k \in 0..MaxTrackEvents} :
        \A i \in 1..(Len(es) - 1) : es[i].absoluteTime <= es[i + 1].absoluteTime}

TypedTrack(events, index) ==
    [index |-> index, events |-> Tagged(RecalcDelta(events), index)]

TypedFiles ==
    {[header   |-> [ppq |-> 1, trackCount |-> 2],
      tracks   |-> <<TypedTrack(e0, 0), TypedTrack(e1, 1)>>,
      duration |-> MaxOf({LastTime(e0), LastTime(e1)})] :
        e0 \in TypedEventLists,
        e1 \in {e \in TypedEventLists : Len(e) <= 1}}

BoundedTypedFiles ==
    {f \in TypedFiles :
        Len(f.tracks[1].events) + Len(f.tracks[2].events) <= MaxTrackEvents}

MergeConfigChoices ==
    {<<[outputId |-> "A", sourceTracks |-> st, channelFilter |-> cf,
        stripProgramChange |-> strip]>> :
        st \in {<<0>>, <<0, 1>>, <<1, 0>>},
        cf \in {<<>>, <<0>>, <<1, 0>>},
        strip \in BOOLEAN}

\* Index.tsx: the settings before a file is loaded
DefaultSettings == [stepsPerBar |-> 16, maxStepsPerClip |-> 128, ppq |-> 480]

NoMidi == [ppq |-> 0, tracks |-> <<>>]

MergeInit ==
    /\ pc = "tracks"
    /\ midi = NoMidi
    /\ parsedMidi \in BoundedTypedFiles
    /\ configs \in MergeConfigChoices
    /\ settings = DefaultSettings
    /\ exported = <<>>
    /\ currentChunkStart = 0
    /\ lifecycleMap = <<>>
    /\ UiAtRest

MergeTracks ==
    /\ pc = "tracks"
    /\ exported' = <<[trackId      |-> configs[1].outputId,
                      mergedEvents |-> mergeTracks(parsedMidi.tracks, configs[1]),
                      splitEvents  |-> <<>>,
                      files        |-> <<>>]>>
    /\ parsedMidi' = [parsedMidi EXCEPT
                         !.tracks = TracksAfterMerge(parsedMidi.tracks, configs[1])]
    /\ pc' = "merged"
    /\ UNCHANGED <<uiVars, midi, configs, settings, currentChunkStart, lifecycleMap>>

MergeNext == MergeTracks

SpecMerge == MergeInit /\ [][MergeNext]_vars

(***************************************************************************)
(* handleExport over every OutputTrackConfig                               *)
(*                                                                         *)
(* ExportPanel receives configs as a prop and mergeTracks takes any        *)
(* OutputTrackConfig: a bus may list no source track, list an index that   *)
(* the file has no track for, or carry filters that let nothing through.   *)
(***************************************************************************)
\* an index beyond the tracks of every file drawn
MissingTrack == 7

BusConfigChoices(id) ==
    {[outputId |-> id, sourceTracks |-> st, channelFilter |-> cf,
      stripProgramChange |-> FALSE] :
        st \in {<<>>, <<0>>, <<1>>, <<MissingTrack>>},
        cf \in {<<>>, <<1>>}}

TwoBusChoices ==
    {<<a, b>> : a \in BusConfigChoices("A"), b \in BusConfigChoices("B")}

BusSettings == [stepsPerBar |-> 4, maxStepsPerClip |-> 1, ppq |-> 1]

BusesInit ==
    /\ pc = "parsed"
    /\ midi = NoMidi
    /\ parsedMidi \in BoundedTypedFiles
    /\ configs \in TwoBusChoices
    /\ settings = BusSettings
    /\ exported = <<>>
    /\ currentChunkStart = 0
    /\ lifecycleMap = <<>>
    /\ UiAtRest

BusesNext == HandleExport

SpecBuses == BusesInit /\ [][BusesNext]_vars

(***************************************************************************)
(* splitEventsBySteps, window by window                                    *)
(*                                                                         *)
(* The function takes maxSteps, ppq and stepsPerBar as plain numbers.  The *)
(* SplitSettings inputs refuse values that are not positive, but           *)
(* handleFileSelect copies ppq from the file header unexamined and the     *)
(* function is exported, so it is run here on settings of either sign.     *)
(* The window loop is taken one iteration at a time; exported[1] holds the *)
(* input stream (mergedEvents) and the chunks pushed so far (splitEvents). *)
(***************************************************************************)
\* the number of chunks recorded: more than any stream drawn needs when
\* maxTicks is a whole tick
MaxChunks == 5

\* the merged streams of one-track files without control changes
SplitStreams ==
    {mergeTracks(<<ParseTrack([channel |-> 0, notes |-> ns, controlChanges |-> <<>>], 0)>>,
                 Bus("A", <<0>>)) : ns \in NoteLists}

AnySettingsChoices ==
    {[stepsPerBar |-> 4, maxStepsPerClip |-> ms, ppq |-> q] :
        ms \in {0 - 1, 0, 1, 2}, q \in {0 - 1, 0, 1}}

SplitInit ==
    /\ pc = "split"
    /\ midi = NoMidi
    /\ parsedMidi = NoFile
    /\ configs = <<>>
    /\ settings \in AnySettingsChoices
    /\ \E events \in SplitStreams :
          exported = <<[trackId |-> "A", mergedEvents |-> events,
                        splitEvents |-> <<>>, files |-> <<>>]>>
    /\ currentChunkStart = 0
    /\ lifecycleMap = <<>>
    /\ UiAtRest

\* entry of the function: the two early returns, else the loop is set up
SplitBegin ==
    /\ pc = "split"
    /\ LET events     == exported[1].mergedEvents
           maxTicks   == settings.maxStepsPerClip * settings.ppq * TIME_SIGNATURE_NUMERATOR
       IN  IF Len(events) = 0
           THEN /\ exported' = [exported EXCEPT ![1].splitEvents = << <<>> >>]
                /\ pc' = "returned"
           ELSE IF Last(events).absoluteTime * settings.stepsPerBar <= maxTicks
           THEN /\ exported' = [exported EXCEPT ![1].splitEvents =
                                   <<ScaledEvents(events, settings.stepsPerBar)>>]
                /\ pc' = "returned"
           ELSE /\ exported' = exported
                /\ pc' = "loop"
    /\ lifecycleMap' = IF pc' = "loop" THEN noteLifecycles(exported[1].mergedEvents)
                                       ELSE <<>>
    /\ currentChunkStart' = 0
    /\ UNCHANGED <<uiVars, midi, parsedMidi, configs, settings>>

\* while (currentChunkStart < totalTicks): the condition holds
SplitTest ==
    /\ pc = "loop"
    /\ currentChunkStart <
          Last(exported[1].mergedEvents).absoluteTime * settings.stepsPerBar
    /\ pc' = "body"
    /\ UNCHANGED <<uiVars, midi, parsedMidi, configs, settings, exported, currentChunkStart,
                   lifecycleMap>>

\* the body of the loop.  The first MaxChunks chunks are recorded with the
\* window start; a loop whose windows do not move forward (maxTicks <= 0) goes
\* on after that with chunks and currentChunkStart left as they are, which
\* leaves its condition as it is: currentChunkStart stays <= 0.
SplitChunk ==
    /\ pc = "body"
    /\ LET events   == exported[1].mergedEvents
           maxTicks == settings.maxStepsPerClip * settings.ppq * TIME_SIGNATURE_NUMERATOR
       IN  \/ /\ Len(exported[1].splitEvents) < MaxChunks
              /\ exported' = [exported EXCEPT ![1].splitEvents =
                    Append(@, ChunkEvents(events, lifecycleMap, currentChunkStart,
                                          maxTicks, settings.stepsPerBar))]
              /\ currentChunkStart' = currentChunkStart + maxTicks
           \/ /\ Len(exported[1].splitEvents) = MaxChunks
              /\ maxTicks <= 0
              /\ UNCHANGED <<exported, currentChunkStart>>
    /\ pc' = "loop"
    /\ UNCHANGED <<uiVars, midi, parsedMidi, configs, settings, lifecycleMap>>

\* the loop condition fails: return chunks
SplitReturn ==
    /\ pc = "loop"
    /\ ~(currentChunkStart <
            Last(exported[1].mergedEvents).absoluteTime * settings.stepsPerBar)
    /\ pc' = "returned"
    /\ UNCHANGED <<uiVars, midi, parsedMidi, configs, settings, exported, currentChunkStart,
                   lifecycleMap>>

SplitNext == SplitBegin \/ SplitTest \/ SplitChunk \/ SplitReturn

SpecSplit == SplitInit /\ [][SplitNext]_vars

\* the function runs on: a step that can be taken is taken.  The streams are
\* those of at most one note.
SplitFairInit == SplitInit /\ Len(exported[1].mergedEvents) <= 2

SpecSplitFair == SplitFairInit /\ [][SplitNext]_vars /\ WF_vars(SplitNext)

(***************************************************************************)
(* writeMIDIFile over the whole MIDIEvent type                             *)
(*                                                                         *)
(* The decoder produces noteOn, noteOff and cc events only; the writer is  *)
(* written for every MIDIEvent, so it is run here on streams that hold the *)
(* other kinds of the type as well, at the two usual resolutions.  The     *)
(* stream is one clip in real ticks (scale 1).                             *)
(***************************************************************************)
MaxWriteEvents == 2

WriteTypedEvent(type, time) ==
    [type |-> type, deltaTime |-> 0, absoluteTime |-> time, channel |-> 0,
     note |-> IF type \in {"noteOn", "noteOff", "aftertouch"} THEN Pitch ELSE Undefined,
     velocity |-> IF type = "noteOn" THEN 100
                  ELSE IF type = "noteOff" THEN 0 ELSE Undefined,
     controller |-> IF type = "cc" THEN 7 ELSE Undefined,
     value |-> IF type \in {"cc", "aftertouch", "channelAftertouch"} THEN 100
               ELSE IF type = "pitchBend" THEN 8192 ELSE Undefined,
     program |-> IF type = "programChange" THEN 5 ELSE Undefined,
     src |-> NoSrc]

WriteTypedEvents ==
    {WriteTypedEvent(type, t) :
        type \in {"noteOn", "noteOff", "cc", "programChange", "pitchBend",
                  "aftertouch", "channelAftertouch"},
        t \in {0, 1}}

\* streams sorted by absoluteTime, as mergeTracks and the splitter leave them
WriteStreams ==
    {RecalcDelta(es) : es \in
        {es \in UNION {[1..k -> WriteTypedEvents] : k \in 0..MaxWriteEvents} :
            \A i \in 1..(Len(es) - 1) : es[i].absoluteTime <= es[i + 1].absoluteTime}}

WriteSettingsChoices ==
    {[stepsPerBar |-> 16, maxStepsPerClip |-> 128, ppq |-> q] : q \in {480, 960}}

WriteInit ==
    /\ pc = "clip"
    /\ midi = NoMidi
    /\ parsedMidi = NoFile
    /\ configs = <<>>
    /\ settings \in WriteSettingsChoices
    /\ \E events \in WriteStreams :
          exported = <<[trackId |-> "A", mergedEvents |-> events,
                        splitEvents |-> <<events>>, files |-> <<>>]>>
    /\ currentChunkStart = 0
    /\ lifecycleMap = <<>>
    /\ UiAtRest

WriteMIDIFile ==
    /\ pc = "clip"
    /\ exported' = [exported EXCEPT ![1].files =
          <<[trackId |-> "A",
             data |-> writeMIDIFile(exported[1].splitEvents[1], settings.ppq, 1),
             splitIndex |-> Undefined,
             stepRange |-> [start |-> 0, end |-> 0]]>>]
    /\ pc' = "written"
    /\ UNCHANGED <<uiVars, midi, parsedMidi, configs, settings, currentChunkStart, lifecycleMap>>

WriteNext == WriteMIDIFile

SpecWrite == WriteInit /\ [][WriteNext]_vars

(***************************************************************************)
(* The buses taken in any order                                            *)
(*                                                                         *)
(* handleExport runs merge, split and write for one bus after the other.   *)
(* Here the three steps of each bus are separate actions that interleave   *)
(* freely over the one parsedMidi, with buses that may list the same       *)
(* track; exported[b].stage is the position of bus b.                      *)
(***************************************************************************)
SharedBusChoices ==
    { <<Bus("A", <<0>>), Bus("B", <<1>>)>>,
      <<Bus("A", <<0, 1>>), Bus("B", <<1>>)>>,
      <<Bus("A", <<1, 0>>), Bus("B", <<0, 1>>)>> }

SharedSettingsChoices ==
    {[stepsPerBar |-> spb, maxStepsPerClip |-> ms, ppq |-> 1] :
        spb \in {4}, ms \in {1, 3}}

\* the files without control changes
NoteFiles == {f \in BoundedFiles : f.tracks[1].controlChanges = <<>>}

InterleavedInit ==
    /\ pc = "buses"
    /\ midi \in NoteFiles
    /\ parsedMidi = parseMIDIFile(midi)
    /\ configs \in SharedBusChoices
    /\ settings \in SharedSettingsChoices
    /\ exported = [b \in 1..Len(configs) |->
                      [trackId |-> configs[b].outputId, stage |-> "todo",
                       mergedEvents |-> <<>>, splitEvents |-> <<>>, files |-> <<>>]]
    /\ currentChunkStart = 0
    /\ lifecycleMap = <<>>
    /\ UiAtRest

\* mergeTracks for bus b; an empty result ends the bus (`continue`)
MergeBus(b) ==
    /\ exported[b].stage = "todo"
    /\ LET mergedEvents == mergeTracks(parsedMidi.tracks, configs[b])
       IN  exported' = [exported EXCEPT
                           ![b].mergedEvents = mergedEvents,
                           ![b].stage = IF Len(mergedEvents) = 0 THEN "skipped"
                                                                 ELSE "merged"]
    /\ parsedMidi' = [parsedMidi EXCEPT
                         !.tracks = TracksAfterMerge(parsedMidi.tracks, configs[b])]
    /\ UNCHANGED <<uiVars, pc, midi, configs, settings, currentChunkStart, lifecycleMap>>

\* splitEventsBySteps for bus b
SplitBus(b) ==
    /\ exported[b].stage = "merged"
    /\ exported' = [exported EXCEPT
          ![b].splitEvents = splitEventsBySteps(exported[b].mergedEvents,
                                 settings.maxStepsPerClip, settings.ppq,
                                 settings.stepsPerBar),
          ![b].stage = "split"]
    /\ UNCHANGED <<uiVars, pc, midi, parsedMidi, configs, settings, currentChunkStart,
                   lifecycleMap>>

\* writeMIDIFile and the exportFiles.push for every clip of bus b
EncodeBus(b) ==
    /\ exported[b].stage = "split"
    /\ exported' = [exported EXCEPT
          ![b].files = [i \in 1..Len(exported[b].splitEvents) |->
                           ExportFileOf(configs[b].outputId, exported[b].splitEvents[i],
                                        Len(exported[b].splitEvents), i - 1,
                                        parsedMidi.duration, settings)],
          ![b].stage = "encoded"]
    /\ UNCHANGED <<uiVars, pc, midi, parsedMidi, configs, settings, currentChunkStart,
                   lifecycleMap>>

InterleavedNext ==
    \E b \in 1..Len(configs) : MergeBus(b) \/ SplitBus(b) \/ EncodeBus(b)

SpecInterleaved == InterleavedInit /\ [][InterleavedNext]_vars

(***************************************************************************)
(* TrackInspector: the assignment of tracks to outputs                     *)
(*                                                                         *)
(* configs is the Map<string, OutputTrackConfig> held by Index; here every *)
(* entry carries its key next to the fields of the config, in insertion    *)
(* order.  Every call of handleAssignmentChange sees the Map that the call *)
(* before it handed to onConfigChange.                                     *)
(***************************************************************************)
\* the tracks listed by the inspector are 0 .. NumTracks - 1
NumTracks == 3

TrackIndices == 0..(NumTracks - 1)

\* the values of the "Assign to" select
OutputChoices == {"None", "A", "B", "C", "D"}

\* config.sourceTracks.filter(t => t !== trackIndex)
FilterOut(sourceTracks, trackIndex) ==
    LET Other(t) == t # trackIndex IN SelectSeq(sourceTracks, Other)

\* faulty variant: a config left without tracks stays in the Map
WithoutTrackKeepEmpty(cfgs, trackIndex) ==
    [k \in 1..Len(cfgs) |->
        [cfgs[k] EXCEPT !.sourceTracks = FilterOut(@, trackIndex)]]

\* newConfigs.forEach: the track is filtered out of every config and a config
\* left without tracks is deleted
WithoutTrack(cfgs, trackIndex) ==
    LET filtered == [k \in 1..Len(cfgs) |->
                        [cfgs[k] EXCEPT !.sourceTracks = FilterOut(@, trackIndex)]]
        NonEmpty(config) == Len(config.sourceTracks) > 0
    IN  SelectSeq(filtered, NonEmpty)

HasKey(cfgs, key) == \E k \in 1..Len(cfgs) : cfgs[k].key = key

\* newConfigs.set(outputKey, {...}) when the key is new, then the push
WithTrack(cfgs, trackIndex, outputKey) ==
    LET withKey == IF HasKey(cfgs, outputKey) THEN cfgs
                   ELSE Append(cfgs, [key |-> outputKey, outputId |-> outputKey,
                                      sourceTracks |-> <<>>, channelFilter |-> <<>>,
                                      stripProgramChange |-> FALSE])
        k == CHOOSE j \in 1..Len(withKey) : withKey[j].key = outputKey
    IN  [withKey EXCEPT ![k].sourceTracks = Append(@, trackIndex)]

handleAssignmentChange(cfgs, trackIndex, outputId) ==
    IF outputId # "None"
    THEN WithTrack(WithoutTrack(cfgs, trackIndex), trackIndex, outputId)
    ELSE WithoutTrack(cfgs, trackIndex)

\* the first entry of the Map whose sourceTracks includes the track
getAssignment(cfgs, trackIndex) ==
    IF \E k \in 1..Len(cfgs) : InList(trackIndex, cfgs[k].sourceTracks)
    THEN cfgs[CHOOSE k \in 1..Len(cfgs) :
                /\ InList(trackIndex, cfgs[k].sourceTracks)
                /\ \A j \in 1..(k - 1) : ~InList(trackIndex, cfgs[j].sourceTracks)].key
    ELSE "None"

AssignInit ==
    /\ pc = "inspector"
    /\ midi = NoMidi
    /\ parsedMidi = NoFile
    /\ configs = <<>>
    /\ settings = DefaultSettings
    /\ exported = <<>>
    /\ currentChunkStart = 0
    /\ lifecycleMap = <<>>
    /\ assigned = [t \in TrackIndices |-> "None"]
    /\ player = <<>>
    /\ timeouts = {}
    /\ currentTime = 0
    /\ played = {}
    /\ missed = {}
    /\ hook = <<>>

\* the select of one track is set to one of its values
HandleAssignmentChange ==
    /\ pc = "inspector"
    /\ \E trackIndex \in TrackIndices, outputId \in OutputChoices :
          /\ configs' = handleAssignmentChange(configs, trackIndex, outputId)
          /\ assigned' = [assigned EXCEPT ![trackIndex] = outputId]
    /\ UNCHANGED <<pc, midi, parsedMidi, settings, exported, currentChunkStart,
                   lifecycleMap, player, timeouts, currentTime, played, missed, hook>>

AssignNext == HandleAssignmentChange

SpecAssign == AssignInit /\ [][AssignNext]_vars

(***************************************************************************)
(* player.ts: MidiPlayer                                                   *)
(*                                                                         *)
(* Time is counted in units of 25 ms, the delay the scheduler passes to    *)
(* setTimeout: audioContext.currentTime, startTime, pauseOffset, duration  *)
(* and the times of the scheduled events are whole numbers of units.  The  *)
(* files played have ppq 10 and no tempo, so that a tick lasts             *)
(* 60 / (120 * 10) s = 2 units.  nextEventIndex counts from 0 as in the    *)
(* code; schedulerInterval = 0 stands for null.  A pending timeout is      *)
(* [id, due]: the browser runs its callback at some time >= due.           *)
(***************************************************************************)
\* constants.ts
DEFAULT_BPM == 120

\* scheduleAheadTime = 0.1 s
scheduleAheadTime == 4

\* window.setTimeout(() => this.scheduler(), 25)
SchedulerDelay == 1

\* ticks * beatsPerTick * secondsPerBeat, in units (40 units in a second)
SecondsOf(ticks, ppq, bpm) == (ticks * 60 * 40) \div (ppq * bpm)

\* noteOnMap.set(event.note, {time, velocity})
NoteOnMapSet(map, note, time, velocity) ==
    {m \in map : m.note # note} \cup {[note |-> note, time |-> time, velocity |-> velocity]}

RECURSIVE ConvertUpTo(_, _, _, _)
ConvertUpTo(events, n, ppq, bpm) ==
    IF n = 0 THEN [noteOnMap |-> {}, events |-> <<>>]
    ELSE LET before == ConvertUpTo(events, n - 1, ppq, bpm)
             event == events[n]
             timeInSeconds == SecondsOf(event.absoluteTime, ppq, bpm)
             open == {m \in before.noteOnMap : m.note = event.note}
             Closed == LET noteOn == CHOOSE m \in open : TRUE
                       IN  [noteOnMap |-> before.noteOnMap \ open,
                            events |-> Append(before.events,
                                          [time |-> noteOn.time, note |-> event.note,
                                           velocity |-> noteOn.velocity,
                                           duration |-> timeInSeconds - noteOn.time])]
         IN  IF event.type = "noteOn" /\ event.note # Undefined
                                      /\ event.velocity # Undefined
             THEN IF event.velocity > 0
                  THEN [before EXCEPT !.noteOnMap =
                           NoteOnMapSet(@, event.note, timeInSeconds, event.velocity)]
                  ELSE IF open # {} THEN Closed ELSE before
             ELSE IF event.type = "noteOff" /\ event.note # Undefined
                  THEN IF open # {} THEN Closed ELSE before
                  ELSE before

\* x inserted behind every element whose time is <= its own
RECURSIVE InsertByStart(_, _)
InsertByStart(sorted, x) ==
    IF sorted = <<>> THEN <<x>>
    ELSE IF Last(sorted).time <= x.time
         THEN Append(sorted, x)
         ELSE Append(InsertByStart(SubSeq(sorted, 1, Len(sorted) - 1), x), Last(sorted))

\* events.sort((a, b) => a.time - b.time)
RECURSIVE SortByStart(_)
SortByStart(s) ==
    IF s = <<>> THEN <<>>
    ELSE InsertByStart(SortByStart(SubSeq(s, 1, Len(s) - 1)), Last(s))

convertTrackToEvents(track, ppq, bpm) ==
    SortByStart(ConvertUpTo(track.events, Len(track.events), ppq, bpm).events)

\* the TrackSynth set by loadTrackInstrument when the instrument has loaded
LoadedTrack(track, ppq, bpm) ==
    [events |-> convertTrackToEvents(track, ppq, bpm), nextEventIndex |-> 0,
     muted |-> FALSE, solo |-> FALSE, isLoaded |-> TRUE]

\* the fields of the player when initialize(midi) has returned
InitializedPlayer(pm) ==
    [isPlaying |-> FALSE, schedulerInterval |-> 0, startTime |-> 0, pauseOffset |-> 0,
     duration |-> SecondsOf(pm.duration, pm.header.ppq, DEFAULT_BPM),
     tracks |-> [i \in 1..Len(pm.tracks) |->
                    LoadedTrack(pm.tracks[i], pm.header.ppq, DEFAULT_BPM)]]

\* hasSolo ? trackSynth.solo : !trackSynth.muted
ShouldPlay(pl, t) ==
    IF \E u \in 1..Len(pl.tracks) : pl.tracks[u].solo
    THEN pl.tracks[t].solo
    ELSE ~pl.tracks[t].muted

\* the value of nextEventIndex when the while loop of the scheduler ends
IndexAfterScheduling(track, scheduleUntil) ==
    LET stops == {i \in track.nextEventIndex..Len(track.events) :
                     i = Len(track.events) \/ track.events[i + 1].time >= scheduleUntil}
    IN  CHOOSE i \in stops : \A j \in stops : i <= j

\* the id window.setTimeout returns: one that no pending timeout has and that
\* the player does not hold
NewTimeoutId(w) ==
    CHOOSE id \in 1..(Cardinality(w.timeouts) + 2) :
        /\ id # w.player.schedulerInterval
        /\ \A x \in w.timeouts : x.id # id

\* clearTimeout(this.schedulerInterval); this.schedulerInterval = null
ClearSchedulerInterval(w) ==
    IF w.player.schedulerInterval # 0
    THEN [w EXCEPT !.timeouts = {x \in @ : x.id # w.player.schedulerInterval},
                   !.player.schedulerInterval = 0]
    ELSE w

\* The methods act on w = [player, timeouts, played, missed]; now is
\* audioContext.currentTime at the call.
stop(w) ==
    LET halted == [w EXCEPT !.player.pauseOffset = 0, !.player.isPlaying = FALSE]
        cleared == ClearSchedulerInterval(halted)
    IN  [cleared EXCEPT
            !.player.tracks = [t \in 1..Len(w.player.tracks) |->
                                  [w.player.tracks[t] EXCEPT !.nextEventIndex = 0]],
            !.played = {},
            !.missed = {}]

scheduler(w, now) ==
    IF ~w.player.isPlaying THEN w
    ELSE LET currentPosition == now - w.player.startTime
             scheduleUntil == currentPosition + scheduleAheadTime
             Audible(t) == ShouldPlay(w.player, t) /\ w.player.tracks[t].isLoaded
             NextIndex(t) ==
                 IF Audible(t)
                 THEN IndexAfterScheduling(w.player.tracks[t], scheduleUntil)
                 ELSE w.player.tracks[t].nextEventIndex
             after == [w EXCEPT
                 !.player.tracks = [t \in 1..Len(w.player.tracks) |->
                     [w.player.tracks[t] EXCEPT !.nextEventIndex = NextIndex(t)]],
                 !.played = @ \cup
                     {<<t, i>> \in (1..Len(w.player.tracks)) \X (0..(2 * MaxNotes)) :
                         /\ w.player.tracks[t].nextEventIndex <= i
                         /\ i < NextIndex(t)}]
         IN  IF currentPosition >= w.player.duration
             THEN stop(after)
             ELSE LET id == NewTimeoutId(after)
                  IN  [after EXCEPT
                          !.timeouts = @ \cup {[id |-> id, due |-> now + SchedulerDelay]},
                          !.player.schedulerInterval = id]

play(w, now) ==
    scheduler([w EXCEPT !.player.startTime = now - w.player.pauseOffset,
                        !.player.isPlaying = TRUE], now)

pause(w, now) ==
    ClearSchedulerInterval([w EXCEPT !.player.pauseOffset = now - w.player.startTime,
                                     !.player.isPlaying = FALSE])

\* the binary search: low = 0, high = events.length - 1, while (low < high)
RECURSIVE BinarySearch(_, _, _, _)
BinarySearch(events, targetTime, low, high) ==
    IF low < high
    THEN LET mid == (low + high) \div 2
         IN  IF events[mid + 1].time < targetTime
             THEN BinarySearch(events, targetTime, mid + 1, high)
             ELSE BinarySearch(events, targetTime, low, mid)
    ELSE low

findEventIndexAtTime(events, targetTime) ==
    IF Len(events) = 0 THEN 0
    ELSE BinarySearch(events, targetTime, 0, Len(events) - 1)

\* Math.max(0, Math.min(seconds, this.duration))
ClampToDuration(seconds, duration) ==
    LET least == IF seconds <= duration THEN seconds ELSE duration
    IN  IF least >= 0 THEN least ELSE 0

seek(w, now, seconds) ==
    LET wasPlaying == w.player.isPlaying
        paused == IF wasPlaying THEN pause(w, now) ELSE w
        target == ClampToDuration(seconds, w.player.duration)
        moved == [paused EXCEPT
            !.player.pauseOffset = target,
            !.player.tracks = [t \in 1..Len(w.player.tracks) |->
                [w.player.tracks[t] EXCEPT !.nextEventIndex =
                    findEventIndexAtTime(w.player.tracks[t].events, target)]],
            !.played = {},
            !.missed = {}]
    IN  IF wasPlaying THEN play(moved, now) ELSE moved

(***************************************************************************)
(* The transport of an initialized player                                  *)
(*                                                                         *)
(* play, pause, stop, seek, setTrackMute and setTrackSolo are called in    *)
(* any order while the clock of the audio context advances and the browser *)
(* runs the pending timeouts.  played and missed describe one playback     *)
(* pass: stop and seek, which move every nextEventIndex, start a new one.  *)
(***************************************************************************)
\* the clock stops at MaxTime units
MaxTime == 7

\* play is not called while MaxTimeouts timeouts are pending
MaxTimeouts == 2

\* files of ppq 10 whose notes last one tick and end before the last tick
PlayerFiles ==
    {[f EXCEPT !.ppq = 10] :
        f \in {g \in NoteFiles :
                  \A t \in 1..2 : \A i \in 1..Len(g.tracks[t].notes) :
                      /\ g.tracks[t].notes[i].durationTicks = 1
                      /\ g.tracks[t].notes[i].ticks + 1 < MaxTick}}

\* the files played by the transport have their notes on the first track
TransportFiles == {f \in PlayerFiles : f.tracks[2].notes = <<>>}

\* the positions handed to seek
SeekChoices == (0 - 1)..MaxTime

World == [player |-> player, timeouts |-> timeouts, played |-> played, missed |-> missed]

Becomes(w) ==
    /\ player' = w.player
    /\ timeouts' = w.timeouts
    /\ played' = w.played
    /\ missed' = w.missed

PlayerInit ==
    /\ pc = "player"
    /\ midi \in TransportFiles
    /\ parsedMidi = parseMIDIFile(midi)
    /\ configs = <<>>
    /\ settings = DefaultSettings
    /\ exported = <<>>
    /\ currentChunkStart = 0
    /\ lifecycleMap = <<>>
    /\ assigned = <<>>
    /\ player = InitializedPlayer(parsedMidi)
    /\ timeouts = {}
    /\ currentTime = 0
    /\ played = {}
    /\ missed = {}
    /\ hook = <<>>

pipelineVars == <<pc, midi, parsedMidi, configs, settings, exported, currentChunkStart,
                  lifecycleMap>>

Play ==
    /\ pc = "player"
    /\ Cardinality(timeouts) < MaxTimeouts
    /\ Becomes(play(World, currentTime))
    /\ UNCHANGED <<pipelineVars, assigned, currentTime, hook>>

Pause ==
    /\ pc = "player"
    /\ Becomes(pause(World, currentTime))
    /\ UNCHANGED <<pipelineVars, assigned, currentTime, hook>>

Stop ==
    /\ pc = "player"
    /\ Becomes(stop(World))
    /\ UNCHANGED <<pipelineVars, assigned, currentTime, hook>>

Seek(seconds) ==
    /\ pc = "player"
    /\ Becomes(seek(World, currentTime, seconds))
    /\ UNCHANGED <<pipelineVars, assigned, currentTime, hook>>

\* the browser runs the callback of a pending timeout: () => this.scheduler()
SchedulerTimeout ==
    /\ pc = "player"
    /\ \E x \in timeouts :
          /\ currentTime >= x.due
          /\ Becomes(scheduler([World EXCEPT !.timeouts = @ \ {x}], currentTime))
    /\ UNCHANGED <<pipelineVars, assigned, currentTime, hook>>

SetTrackMute(trackIndex, muted) ==
    /\ pc = "player"
    /\ trackIndex + 1 \in 1..Len(player.tracks)
    /\ player' = [player EXCEPT !.tracks[trackIndex + 1].muted = muted]
    /\ UNCHANGED <<pipelineVars, assigned, timeouts, currentTime, played, missed, hook>>

SetTrackSolo(trackIndex, solo) ==
    /\ pc = "player"
    /\ trackIndex + 1 \in 1..Len(player.tracks)
    /\ player' = [player EXCEPT !.tracks[trackIndex + 1].solo = solo]
    /\ UNCHANGED <<pipelineVars, assigned, timeouts, currentTime, played, missed, hook>>

\* the events not yet played whose time is the current position, on the
\* tracks that are inaudible
GoingByUnheard ==
    IF player.isPlaying
    THEN {<<t, i>> \in (1..Len(player.tracks)) \X (0..(2 * MaxNotes)) :
             /\ ~ShouldPlay(player, t)
             /\ player.tracks[t].nextEventIndex <= i
             /\ i < Len(player.tracks[t].events)
             /\ player.tracks[t].events[i + 1].time = currentTime - player.startTime}
    ELSE {}

\* audioContext.currentTime advances by one unit
AdvanceTime ==
    /\ pc = "player"
    /\ currentTime < MaxTime
    /\ currentTime' = currentTime + 1
    /\ missed' = missed \cup GoingByUnheard
    /\ UNCHANGED <<pipelineVars, assigned, player, timeouts, played, hook>>

TransportNext ==
    \/ Play
    \/ Pause
    \/ Stop
    \/ \E seconds \in SeekChoices : Seek(seconds)
    \/ SchedulerTimeout
    \/ AdvanceTime

SpecTransport == PlayerInit /\ [][TransportNext]_vars

\* the transport when play is called on a player that is not playing only
PlayWhenHalted == ~player.isPlaying /\ Play

HaltedNext ==
    \/ PlayWhenHalted
    \/ Pause
    \/ Stop
    \/ \E seconds \in SeekChoices : Seek(seconds)
    \/ SchedulerTimeout
    \/ AdvanceTime

SpecTransportHalted == PlayerInit /\ [][HaltedNext]_vars

(***************************************************************************)
(* Playback with mute and solo                                             *)
(*                                                                         *)
(* useMidiPlayer.toggleMute and toggleSolo call setTrackMute and           *)
(* setTrackSolo at any time while the player plays a file of two tracks.   *)
(***************************************************************************)
\* at most one note on each track
MuteFiles == {f \in PlayerFiles : \A t \in 1..2 : Len(f.tracks[t].notes) <= 1}

MuteInit ==
    /\ pc = "player"
    /\ midi \in MuteFiles
    /\ parsedMidi = parseMIDIFile(midi)
    /\ configs = <<>>
    /\ settings = DefaultSettings
    /\ exported = <<>>
    /\ currentChunkStart = 0
    /\ lifecycleMap = <<>>
    /\ assigned = <<>>
    /\ player = InitializedPlayer(parsedMidi)
    /\ timeouts = {}
    /\ currentTime = 0
    /\ played = {}
    /\ missed = {}
    /\ hook = <<>>

MuteNext ==
    \/ PlayWhenHalted
    \/ Stop
    \/ SchedulerTimeout
    \/ AdvanceTime
    \/ \E trackIndex \in 0..1, muted \in BOOLEAN : SetTrackMute(trackIndex, muted)
    \/ \E trackIndex \in 0..1, solo \in BOOLEAN : SetTrackSolo(trackIndex, solo)

SpecMute == MuteInit /\ [][MuteNext]_vars

(***************************************************************************)
(* useMidiPlayer: the effect that initializes the player                   *)
(*                                                                         *)
(* hook holds what the effect of useMidiPlayer reads and writes:           *)
(*   parsedMidi     the prop, 0 for null, else the number of the file      *)
(*   lastFile       the number of files selected so far                    *)
(*   parsing        the files whose parseMIDIFile has not returned         *)
(*   playerRef      0 for null, else the place of the player in players    *)
(*   players        the MidiPlayer objects made so far: midi is the file   *)
(*                  given to initialize (0 before), audioContext whether   *)
(*                  the field is set, tracksLoaded whether tracks holds    *)
(*                  the loaded tracks, returned whether initialize has     *)
(*                  returned                                               *)
(*   calls          the initPlayer calls that wait at their await, each    *)
(*                  with its file (the parsedMidi of its closure), the     *)
(*                  player it called initialize on, and how far that       *)
(*                  initialize got: "toneStart" at `await Tone.start()`,   *)
(*                  "loading" at `await Promise.all`                       *)
(*   isInitialized, isLoading                                              *)
(*   duration, trackStates   the file whose duration and tracks they hold  *)
(*   staleWrite     whether a continuation of initPlayer has set state     *)
(*                  while the prop was a file other than its own           *)
(* A continuation runs in the microtask that follows the return of         *)
(* initialize, so the two are one step.                                    *)
(***************************************************************************)
\* the number of files selected in a run
MaxFiles == 3

NewPlayer == [midi |-> 0, audioContext |-> FALSE, tracksLoaded |-> FALSE, returned |-> FALSE]

\* MidiPlayer.dispose
dispose(p) == [p EXCEPT !.audioContext = FALSE, !.tracksLoaded = FALSE]

HookAtStart ==
    [parsedMidi |-> 0, lastFile |-> 0, parsing |-> {}, playerRef |-> 0, players |-> <<>>,
     calls |-> {}, isInitialized |-> FALSE, isLoading |-> FALSE, duration |-> 0,
     trackStates |-> 0, staleWrite |-> FALSE]

\* the cleanup returned by the effect when parsedMidi was a file
EffectCleanup(h) ==
    IF h.parsedMidi = 0 THEN h
    ELSE [h EXCEPT !.players = IF h.playerRef = 0 THEN @
                                ELSE [@ EXCEPT ![h.playerRef] = dispose(@)],
                   !.playerRef = 0]

\* the body of the effect for the new value of the prop
EffectBody(h, file) ==
    IF file = 0
    THEN [h EXCEPT !.parsedMidi = 0, !.isInitialized = FALSE, !.isLoading = FALSE]
    ELSE LET made == IF h.playerRef = 0
                     THEN [h EXCEPT !.players = Append(@, NewPlayer),
                                    !.playerRef = Len(h.players) + 1]
                     ELSE h
         IN  [made EXCEPT !.parsedMidi = file,
                          !.isLoading = TRUE,
                          !.calls = @ \cup {[file |-> file, player |-> made.playerRef,
                                             at |-> "toneStart"]}]

\* the prop changes: cleanup of the last effect, then the new effect
EffectRun(h, file) == EffectBody(EffectCleanup(h), file)

\* the statements of initPlayer behind `await playerRef.current.initialize(...)`
InitPlayerContinues(h, call) ==
    LET stale == h.parsedMidi # 0 /\ h.parsedMidi # call.file
    IN  IF h.playerRef = 0
        THEN \* playerRef.current.getDuration() throws, the catch block runs
             [h EXCEPT !.isLoading = FALSE, !.isInitialized = FALSE,
                       !.staleWrite = @ \/ stale]
        ELSE [h EXCEPT !.duration = h.players[h.playerRef].midi,
                       !.isInitialized = TRUE,
                       !.isLoading = FALSE,
                       !.trackStates = call.file,
                       !.staleWrite = @ \/ stale]

HookInit ==
    /\ pc = "hook"
    /\ midi = NoMidi
    /\ parsedMidi = NoFile
    /\ configs = <<>>
    /\ settings = DefaultSettings
    /\ exported = <<>>
    /\ currentChunkStart = 0
    /\ lifecycleMap = <<>>
    /\ assigned = <<>>
    /\ player = <<>>
    /\ timeouts = {}
    /\ currentTime = 0
    /\ played = {}
    /\ missed = {}
    /\ hook = HookAtStart

playerVars == <<assigned, player, timeouts, currentTime, played, missed>>

\* Index.handleFileSelect up to `await parseMIDIFile(file)`: setParsedMidi(null)
HandleFileSelect ==
    /\ pc = "hook"
    /\ hook.lastFile < MaxFiles
    /\ hook' = [EffectRun(hook, 0) EXCEPT !.lastFile = hook.lastFile + 1,
                                          !.parsing = @ \cup {hook.lastFile + 1}]
    /\ UNCHANGED <<pipelineVars, playerVars>>

\* parseMIDIFile returns: setParsedMidi(parsed)
FileParsed ==
    /\ pc = "hook"
    /\ \E file \in hook.parsing :
          hook' = [EffectRun(hook, file) EXCEPT !.parsing = @ \ {file}]
    /\ UNCHANGED <<pipelineVars, playerVars>>

\* Tone.start() resolves: initialize goes on to `await Promise.all(...)`
ToneStarted ==
    /\ pc = "hook"
    /\ \E call \in hook.calls :
          /\ call.at = "toneStart"
          /\ hook' = [hook EXCEPT
                !.players[call.player] =
                    [dispose(@) EXCEPT !.midi = call.file, !.audioContext = TRUE],
                !.calls = (@ \ {call}) \cup {[call EXCEPT !.at = "loading"]}]
    /\ UNCHANGED <<pipelineVars, playerVars>>

\* the instruments have loaded: initialize returns and initPlayer goes on
InstrumentsLoaded ==
    /\ pc = "hook"
    /\ \E call \in hook.calls :
          /\ call.at = "loading"
          /\ hook' = InitPlayerContinues(
                [hook EXCEPT !.players[call.player].tracksLoaded = TRUE,
                             !.players[call.player].returned = TRUE,
                             !.calls = @ \ {call}], call)
    /\ UNCHANGED <<pipelineVars, playerVars>>

HookNext == HandleFileSelect \/ FileParsed \/ ToneStarted \/ InstrumentsLoaded

SpecHook == HookInit /\ [][HookNext]_vars

(***************************************************************************)
(* Vocabulary of the properties                                            *)
(***************************************************************************)
Exported == pc = "exported"

\* maxTicks of the current settings, in scaled ticks
MaxTicksNow == settings.maxStepsPerClip * settings.ppq * TIME_SIGNATURE_NUMERATOR

\* a time of the merged stream in scaled ticks
ScaledTime(t) == t * settings.stepsPerBar

\* `maxTicks - 1` in scaled ticks
BoundaryOffTime == MaxTicksNow - settings.stepsPerBar

\* the last tick of a bus's merged stream
TotalTicks(bus) == Last(bus.mergedEvents).absoluteTime

\* the bus went through the window loop
WasSplit(bus) == ScaledTime(TotalTicks(bus)) > MaxTicksNow

\* window c (from 1) is [WindowStart(c), WindowEnd(c))
WindowStart(c) == (c - 1) * MaxTicksNow
WindowEnd(c) == c * MaxTicksNow

Synthesized(e) == e.src = NoSrc

\* e is a synthesized event of the given type for the key of noteOn
IsRepair(e, type, noteOn, time) ==
    /\ Synthesized(e)
    /\ e.type = type
    /\ e.channel = noteOn.channel
    /\ e.note = noteOn.note
    /\ e.absoluteTime = time

\* the lifecycles of a stream, as a set of [on, off] places (off = 0: none)
LifecycleSet(events) ==
    LET map == noteLifecycles(events)
    IN  UNION {{map[k].list[j] : j \in 1..Len(map[k].list)} : k \in 1..Len(map)}

\* The pairing of the first-in-first-out policy, for comparison with the
\* lifecycles the code builds.
\* first-in-first-out matching: `open` lists the places of the open NoteOns
RECURSIVE FifoUpTo(_, _)
FifoUpTo(events, n) ==
    IF n = 0 THEN [open |-> <<>>, pairs |-> {}]
    ELSE LET prev == FifoUpTo(events, n - 1)
             e    == events[n]
             SameKey(i) == NoteKey(events[i]) = NoteKey(e)
             waiting == SelectSeq(prev.open, SameKey)
             NotFirst(i) == i # waiting[1]
         IN  IF e.type = "noteOn" THEN [prev EXCEPT !.open = Append(@, n)]
             ELSE IF e.type = "noteOff" /\ waiting # <<>>
                  THEN [open  |-> SelectSeq(prev.open, NotFirst),
                        pairs |-> prev.pairs \cup {[on |-> waiting[1], off |-> n]}]
                  ELSE prev

FifoLifecycles(events) ==
    LET end == FifoUpTo(events, Len(events))
    IN  end.pairs \cup {[on |-> end.open[i], off |-> 0] : i \in 1..Len(end.open)}

\* the lifecycles the code builds, and those of first-in-first-out matching
Lifecycles(events) == LifecycleSet(events) \cup FifoLifecycles(events)

(***************************************************************************)
(* C1.  For every bus with a non-empty merged stream, the step ranges of    *)
(* its clips, in clip order, start at 0, are contiguous without gap or      *)
(* overlap, and end at totalSteps = ceil(lastEventTick / ticksPerStep) of   *)
(* that bus's stream.                                                      *)
(***************************************************************************)
StepRangesTile(bus) ==
    /\ bus.files[1].stepRange.start = 0
    /\ \A i \in 1..Len(bus.files) :
          bus.files[i].stepRange.start <= bus.files[i].stepRange.end
    /\ \A i \in 1..(Len(bus.files) - 1) :
          bus.files[i].stepRange.end = bus.files[i + 1].stepRange.start
    /\ Last(bus.files).stepRange.end =
          calculateSteps(TotalTicks(bus), settings.ppq, settings.stepsPerBar)

C1_StepRangesTileTotalSteps ==
    Exported => \A b \in 1..Len(exported) : StepRangesTile(exported[b])

(***************************************************************************)
(* C2.  When a stream is split, every event of the input stream, the last  *)
(* one included, is in exactly one clip: the clip of the window that       *)
(* contains its absoluteTime, at absoluteTime minus the window start.      *)
(***************************************************************************)
\* the places <<clip, position>> that hold a copy of the source event
CopiesOf(bus, e) ==
    {cj \in UNION {{<<c, j>> : j \in 1..Len(bus.splitEvents[c])} :
                        c \in 1..Len(bus.splitEvents)} :
        bus.splitEvents[cj[1]][cj[2]].src = e.src}

CopiedOnceInItsWindow(bus, e) ==
    /\ Cardinality(CopiesOf(bus, e)) = 1
    /\ \A cj \in CopiesOf(bus, e) :
          LET copy == bus.splitEvents[cj[1]][cj[2]] IN
          /\ WindowStart(cj[1]) <= ScaledTime(e.absoluteTime)
          /\ ScaledTime(e.absoluteTime) < WindowEnd(cj[1])
          /\ copy.absoluteTime = ScaledTime(e.absoluteTime) - WindowStart(cj[1])
          /\ copy = [e EXCEPT !.absoluteTime = copy.absoluteTime,
                              !.deltaTime = copy.deltaTime]

C2_EveryEventInExactlyOneClip ==
    Exported =>
        \A b \in 1..Len(exported) :
            WasSplit(exported[b]) =>
                \A i \in 1..Len(exported[b].mergedEvents) :
                    CopiedOnceInItsWindow(exported[b], exported[b].mergedEvents[i])

(***************************************************************************)
(* C3.  For every window [start, end) and every lifecycle whose NoteOn is  *)
(* inside or before the window and whose matching NoteOff is at or after   *)
(* end, the window's clip holds one synthesized NoteOff for the            *)
(* lifecycle's (channel, note), at re-based tick maxTicksPerClip - 1.      *)
(***************************************************************************)
RepairsIn(clip, type, noteOn, time) ==
    {j \in 1..Len(clip) : IsRepair(clip[j], type, noteOn, time)}

CrossesEnd(events, lc, c) ==
    /\ lc.off # 0
    /\ ScaledTime(events[lc.on].absoluteTime) < WindowEnd(c)
    /\ ScaledTime(events[lc.off].absoluteTime) >= WindowEnd(c)

C3_NoteOffSynthesizedAtWindowEnd ==
    Exported =>
        \A b \in 1..Len(exported) :
            LET bus == exported[b] IN
            WasSplit(bus) =>
                \A c \in 1..Len(bus.splitEvents) :
                    \A lc \in Lifecycles(bus.mergedEvents) :
                        CrossesEnd(bus.mergedEvents, lc, c) =>
                            Cardinality(RepairsIn(bus.splitEvents[c], "noteOff",
                                                  bus.mergedEvents[lc.on],
                                                  BoundaryOffTime)) = 1

\* a split bus has a window that a paired lifecycle crosses the end of
C3_Witness ==
    /\ Exported
    /\ \E b \in 1..Len(exported) :
          /\ WasSplit(exported[b])
          /\ \E c \in 1..Len(exported[b].splitEvents) :
                \E lc \in LifecycleSet(exported[b].mergedEvents) :
                    /\ CrossesEnd(exported[b].mergedEvents, lc, c)
                    /\ ScaledTime(exported[b].mergedEvents[lc.on].absoluteTime)
                          < WindowStart(c)

(***************************************************************************)
(* C4.  For every window [start, end) and every lifecycle whose NoteOn     *)
(* tick is before start and whose matching NoteOff tick is at or after     *)
(* start (equal to start included), the window's clip holds a synthesized  *)
(* NoteOn for that (channel, note) at re-based tick 0 with the original    *)
(* NoteOn's velocity.                                                      *)
(***************************************************************************)
HasNoteOnRepair(clip, noteOn) ==
    \E j \in RepairsIn(clip, "noteOn", noteOn, 0) : clip[j].velocity = noteOn.velocity

SoundingAtOrUntilStart(events, lc, c) ==
    /\ lc.off # 0
    /\ ScaledTime(events[lc.on].absoluteTime) < WindowStart(c)
    /\ ScaledTime(events[lc.off].absoluteTime) >= WindowStart(c)

SoundingAfterStart(events, lc, c) ==
    /\ lc.off # 0
    /\ ScaledTime(events[lc.on].absoluteTime) < WindowStart(c)
    /\ ScaledTime(events[lc.off].absoluteTime) > WindowStart(c)

C5_LifecyclesPairFifo ==
    Exported =>
        \A b \in 1..Len(exported) :
            WasSplit(exported[b]) =>
                LifecycleSet(exported[b].mergedEvents)
                    = FifoLifecycles(exported[b].mergedEvents)

(***************************************************************************)
(* C6.  A note whose NoteOn and matching NoteOff are more than             *)
(* maxTicksPerClip apart, so that it spans three or more clips, gets in    *)
(* every intermediate clip it passes through a synthesized NoteOn at       *)
(* re-based tick 0 and a synthesized NoteOff at maxTicksPerClip - 1.       *)
(***************************************************************************)
\* window c lies between the window of the NoteOn and that of the NoteOff
Intermediate(events, lc, c) ==
    /\ lc.off # 0
    /\ ScaledTime(events[lc.on].absoluteTime) < WindowStart(c)
    /\ ScaledTime(events[lc.off].absoluteTime) >= WindowEnd(c)

C6_IntermediateClipsRepaired ==
    Exported =>
        \A b \in 1..Len(exported) :
            LET bus == exported[b] IN
            WasSplit(bus) =>
                \A c \in 1..Len(bus.splitEvents) :
                    \A lc \in Lifecycles(bus.mergedEvents) :
                        Intermediate(bus.mergedEvents, lc, c) =>
                            /\ RepairsIn(bus.splitEvents[c], "noteOn",
                                         bus.mergedEvents[lc.on], 0) # {}
                            /\ RepairsIn(bus.splitEvents[c], "noteOff",
                                         bus.mergedEvents[lc.on], BoundaryOffTime) # {}

\* a note passes through an intermediate clip and reaches a later one
C6_Witness ==
    /\ Exported
    /\ \E b \in 1..Len(exported) :
          LET bus == exported[b] IN
          /\ WasSplit(bus)
          /\ \E c \in 2..(Len(bus.splitEvents) - 1) :
                \E lc \in LifecycleSet(bus.mergedEvents) :
                    /\ Intermediate(bus.mergedEvents, lc, c)
                    /\ ScaledTime(bus.mergedEvents[lc.off].absoluteTime)
                          < WindowEnd(Len(bus.splitEvents))
                    /\ HasNoteOnRepair(bus.splitEvents[c], bus.mergedEvents[lc.on])

(***************************************************************************)
(* C7.  splitEventsBySteps returns exactly one clip, equal to the input    *)
(* event for event, whenever the last event's tick is at most              *)
(* maxTicksPerClip (equality included); for an empty input it returns one  *)
(* empty clip.                                                             *)
(***************************************************************************)
\* clip and stream agree event for event (clip times are scaled ticks)
SameStream(clip, events) ==
    /\ Len(clip) = Len(events)
    /\ \A i \in 1..Len(events) :
          /\ clip[i].absoluteTime = ScaledTime(events[i].absoluteTime)
          /\ clip[i].deltaTime = ScaledTime(events[i].deltaTime)
          /\ [clip[i] EXCEPT !.absoluteTime = 0, !.deltaTime = 0]
                = [events[i] EXCEPT !.absoluteTime = 0, !.deltaTime = 0]

C7_NoSplitReturnsInput ==
    Exported =>
        /\ \A b \in 1..Len(exported) :
              ~WasSplit(exported[b]) =>
                  /\ Len(exported[b].splitEvents) = 1
                  /\ SameStream(exported[b].splitEvents[1], exported[b].mergedEvents)
        /\ splitEventsBySteps(<<>>, settings.maxStepsPerClip, settings.ppq,
                              settings.stepsPerBar) = << <<>> >>

\* a stream whose last tick is exactly maxTicksPerClip came back as one clip
C7_Witness ==
    /\ Exported
    /\ \E b \in 1..Len(exported) :
          /\ ScaledTime(TotalTicks(exported[b])) = MaxTicksNow
          /\ Len(exported[b].mergedEvents) > 1
          /\ Len(exported[b].splitEvents) = 1

(***************************************************************************)
(* C8.  In each decoded track, in the stream returned by mergeTracks and   *)
(* in every clip of a merged stream, absoluteTime is non-decreasing in     *)
(* stream order and the deltaTime values up to and including an event sum  *)
(* to its absoluteTime.                                                    *)
(***************************************************************************)
RECURSIVE SumDelta(_, _)
SumDelta(s, i) == IF i = 0 THEN 0 ELSE SumDelta(s, i - 1) + s[i].deltaTime

Monotonic(s) ==
    /\ \A i \in 1..(Len(s) - 1) : s[i].absoluteTime <= s[i + 1].absoluteTime
    /\ \A i \in 1..Len(s) : SumDelta(s, i) = s[i].absoluteTime

C8_MonotonicTimeAndDeltaSums ==
    /\ \A t \in 1..Len(parsedMidi.tracks) : Monotonic(parsedMidi.tracks[t].events)
    /\ \A b \in 1..Len(exported) :
          /\ Monotonic(exported[b].mergedEvents)
          /\ \A c \in 1..Len(exported[b].splitEvents) :
                Monotonic(exported[b].splitEvents[c])

\* the decoder had to reorder a track, two tracks were interleaved, and a
\* clip holds copied and synthesized events
C8_Witness ==
    /\ Exported
    /\ \E t \in 1..Len(midi.tracks) :
          \E i \in 1..(Len(RawTrackEvents(midi.tracks[t])) - 1) :
              RawTrackEvents(midi.tracks[t])[i].absoluteTime
                  > RawTrackEvents(midi.tracks[t])[i + 1].absoluteTime
    /\ \E b \in 1..Len(exported) :
          /\ WasSplit(exported[b])
          /\ \E i \in 1..(Len(exported[b].mergedEvents) - 1) :
                exported[b].mergedEvents[i].src[1] > exported[b].mergedEvents[i + 1].src[1]
          /\ \E c \in 1..Len(exported[b].splitEvents) :
                /\ \E j \in 1..Len(exported[b].splitEvents[c]) :
                      Synthesized(exported[b].splitEvents[c][j])
                /\ \E j \in 1..Len(exported[b].splitEvents[c]) :
                      /\ ~Synthesized(exported[b].splitEvents[c][j])
                      /\ exported[b].splitEvents[c][j].absoluteTime > 0

(***************************************************************************)
(* C9.  Events with the same absoluteTime keep their input order: in the   *)
(* mergeTracks output they come in the order of config.sourceTracks and,   *)
(* within one source track, in the track's own order; in every clip the    *)
(* copied events with equal re-based tick keep their relative input order, *)
(* so a NoteOff preceding a NoteOn of the same pitch at the same tick      *)
(* still precedes it.                                                      *)
(***************************************************************************)
ConfigOf(id) == configs[CHOOSE k \in 1..Len(configs) : configs[k].outputId = id]

\* the place of a track index in config.sourceTracks
SourcePlace(config, trackIndex) ==
    CHOOSE k \in 1..Len(config.sourceTracks) : config.sourceTracks[k] = trackIndex

InputOrder(config, a, b) ==
    \/ SourcePlace(config, a.src[1]) < SourcePlace(config, b.src[1])
    \/ a.src[1] = b.src[1] /\ a.src[2] < b.src[2]

\* the place of a source event in the merged stream
MergedPlace(events, src) == CHOOSE i \in 1..Len(events) : events[i].src = src

C9_TiesKeepInputOrder ==
    Exported =>
        \A b \in 1..Len(exported) :
            LET bus == exported[b]
                merged == bus.mergedEvents
            IN
            /\ \A i, j \in 1..Len(merged) :
                  (i < j /\ merged[i].absoluteTime = merged[j].absoluteTime) =>
                      InputOrder(ConfigOf(bus.trackId), merged[i], merged[j])
            /\ \A c \in 1..Len(bus.splitEvents) :
                  LET clip == bus.splitEvents[c] IN
                  \A i, j \in 1..Len(clip) :
                      ( /\ i < j
                        /\ ~Synthesized(clip[i]) /\ ~Synthesized(clip[j])
                        /\ clip[i].absoluteTime = clip[j].absoluteTime ) =>
                          MergedPlace(merged, clip[i].src) < MergedPlace(merged, clip[j].src)

\* a split bus that lists track 1 before track 0, with a tie between the two
\* tracks and, in one clip, a NoteOff followed at the same tick by a NoteOn of
\* the same pitch
C9_Witness ==
    /\ Exported
    /\ \E b \in 1..Len(exported) :
          LET bus == exported[b]
              merged == bus.mergedEvents
          IN
          /\ WasSplit(bus)
          /\ ConfigOf(bus.trackId).sourceTracks = <<1, 0>>
          /\ \E i \in 1..(Len(merged) - 1) :
                /\ merged[i].absoluteTime = merged[i + 1].absoluteTime
                /\ merged[i].src[1] = 1 /\ merged[i + 1].src[1] = 0
          /\ \E c \in 1..Len(bus.splitEvents) :
                \E j \in 1..(Len(bus.splitEvents[c]) - 1) :
                    LET x == bus.splitEvents[c][j]
                        y == bus.splitEvents[c][j + 1]
                    IN  /\ ~Synthesized(x) /\ ~Synthesized(y)
                        /\ x.absoluteTime = y.absoluteTime
                        /\ x.type = "noteOff" /\ y.type = "noteOn"
                        /\ NoteKey(x) = NoteKey(y)

(***************************************************************************)
(* C10.  With a non-empty channelFilter, mergeTracks drops an event on     *)
(* account of the filter if and only if the event's channel is defined and *)
(* is not in the allow-list; events that carry no channel (such as meta    *)
(* events) are not dropped by the channel filter.                          *)
(***************************************************************************)
Merged == pc = "merged"

\* the events of the tracks that config.sourceTracks lists
SourceEvents(config) ==
    UNION {{TrackEventsAt(parsedMidi.tracks, config.sourceTracks[k])[i] :
                i \in 1..Len(TrackEventsAt(parsedMidi.tracks, config.sourceTracks[k]))} :
            k \in 1..Len(config.sourceTracks)}

\* the other two rules of mergeTracks let the event through
PassesOtherRules(e, config) ==
    /\ ~(config.stripProgramChange /\ e.type = "programChange")
    /\ e.type \notin {"sysex", "unknown"}

InMerged(e) == \E i \in 1..Len(exported[1].mergedEvents) :
                  exported[1].mergedEvents[i].src = e.src

\* the claim as stated: dropped iff the channel is defined and not allowed
C10_FilterDropsOnlyDefinedChannels ==
    (Merged /\ Len(configs[1].channelFilter) > 0) =>
        \A e \in SourceEvents(configs[1]) :
            PassesOtherRules(e, configs[1]) =>
                (~InMerged(e) <=>
                    (e.channel # Undefined /\ ~InList(e.channel, configs[1].channelFilter)))

\* C10 amended: dropped iff the channel is undefined or not allowed
C10_FilterDropsUndefinedAndOtherChannels ==
    (Merged /\ Len(configs[1].channelFilter) > 0) =>
        \A e \in SourceEvents(configs[1]) :
            PassesOtherRules(e, configs[1]) =>
                (~InMerged(e) <=>
                    (e.channel = Undefined \/ ~InList(e.channel, configs[1].channelFilter)))

\* under a non-empty filter: a meta event, which has no channel, was dropped
\* and an event of an allowed channel was kept
C10_Witness ==
    /\ Merged
    /\ Len(configs[1].channelFilter) > 0
    /\ \E e \in SourceEvents(configs[1]) :
          e.type = "meta" /\ e.channel = Undefined /\ ~InMerged(e)
    /\ \E e \in SourceEvents(configs[1]) :
          /\ e.channel # Undefined
          /\ InList(e.channel, configs[1].channelFilter)
          /\ InMerged(e)

(***************************************************************************)
(* C11.  With a non-empty channelFilter no event of the stream returned by *)
(* mergeTracks has a channel outside channelFilter; with an absent or      *)
(* empty channelFilter no event is dropped because of its channel.         *)
(***************************************************************************)
C11_OnlyAllowedChannelsInOutput ==
    Merged =>
        /\ Len(configs[1].channelFilter) > 0 =>
              \A i \in 1..Len(exported[1].mergedEvents) :
                  InList(exported[1].mergedEvents[i].channel, configs[1].channelFilter)
        /\ Len(configs[1].channelFilter) = 0 =>
              \A e \in SourceEvents(configs[1]) :
                  PassesOtherRules(e, configs[1]) => InMerged(e)

\* tracks of channel 0 and channel 1 merged under the filter [0]: the event of
\* channel 1 is gone and the event of channel 0 is there
C11_Witness ==
    /\ Merged
    /\ configs[1].channelFilter = <<0>>
    /\ \E e \in SourceEvents(configs[1]) : e.channel = 1 /\ ~InMerged(e)
    /\ \E e \in SourceEvents(configs[1]) : e.channel = 0 /\ InMerged(e)

(***************************************************************************)
(* C12.  The mergeTracks output holds no programChange event when          *)
(* config.stripProgramChange is set; when it is not set, every             *)
(* programChange event of the listed source tracks that passes the channel *)
(* filter is in the output.                                                *)
(***************************************************************************)
PassesChannelFilter(e, config) ==
    \/ Len(config.channelFilter) = 0
    \/ e.channel # Undefined /\ InList(e.channel, config.channelFilter)

C12_ProgramChangeStrippedOnlyWhenSet ==
    Merged =>
        /\ configs[1].stripProgramChange =>
              \A i \in 1..Len(exported[1].mergedEvents) :
                  exported[1].mergedEvents[i].type # "programChange"
        /\ ~configs[1].stripProgramChange =>
              \A e \in SourceEvents(configs[1]) :
                  (e.type = "programChange" /\ PassesChannelFilter(e, configs[1]))
                      => InMerged(e)

\* the flag is set and a programChange that the channel filter lets through
\* was removed, next to a noteOn that was kept
C12_Witness ==
    /\ Merged
    /\ configs[1].stripProgramChange
    /\ \E e \in SourceEvents(configs[1]) :
          /\ e.type = "programChange"
          /\ PassesChannelFilter(e, configs[1])
          /\ ~InMerged(e)
    /\ \E e \in SourceEvents(configs[1]) : e.type = "noteOn" /\ InMerged(e)

(***************************************************************************)
(* C13.  For every config the stream returned by mergeTracks holds no      *)
(* event of type sysex or unknown, whatever channelFilter and              *)
(* stripProgramChange are, and every event of another type that passes the *)
(* channel and program-change filters is kept.                             *)
(***************************************************************************)
C13_UnsupportedEventsAlwaysDropped ==
    Merged =>
        /\ \A i \in 1..Len(exported[1].mergedEvents) :
              exported[1].mergedEvents[i].type \notin {"sysex", "unknown"}
        /\ \A e \in SourceEvents(configs[1]) :
              ( /\ e.type \notin {"sysex", "unknown"}
                /\ PassesChannelFilter(e, configs[1])
                /\ ~(configs[1].stripProgramChange /\ e.type = "programChange") )
                  => InMerged(e)

\* no channel filter and no strip flag: an unknown event was removed all the
\* same, and a meta event of the same track was kept
C13_Witness ==
    /\ Merged
    /\ Len(configs[1].channelFilter) = 0
    /\ ~configs[1].stripProgramChange
    /\ \E e \in SourceEvents(configs[1]) : e.type = "unknown" /\ ~InMerged(e)
    /\ \E e \in SourceEvents(configs[1]) : e.type = "meta" /\ InMerged(e)

(***************************************************************************)
(* C14.  mergeTracks returns an empty stream when sourceTracks is empty,   *)
(* when every listed index has no track, or when every event is filtered   *)
(* out; the export then produces no file for that bus and still produces   *)
(* the files of the other buses.                                           *)
(***************************************************************************)
\* no event of the listed tracks gets through the three rules of mergeTracks
NothingToMerge(config) ==
    \A e \in SourceEvents(config) :
        ~(PassesChannelFilter(e, config) /\ PassesOtherRules(e, config))

RecordsOf(id) == {b \in 1..Len(exported) : exported[b].trackId = id}

C14_EmptyBusSkippedOthersExported ==
    Exported =>
        \A k \in 1..Len(configs) :
            /\ NothingToMerge(configs[k]) =>
                  /\ mergeTracks(parsedMidi.tracks, configs[k]) = <<>>
                  /\ RecordsOf(configs[k].outputId) = {}
            /\ ~NothingToMerge(configs[k]) =>
                  /\ Cardinality(RecordsOf(configs[k].outputId)) = 1
                  /\ \A b \in RecordsOf(configs[k].outputId) :
                        Len(exported[b].files) >= 1

\* the first bus lists a track whose events are all filtered out, the second
\* bus was exported
C14_Witness ==
    /\ Exported
    /\ SourceEvents(configs[1]) # {}
    /\ NothingToMerge(configs[1])
    /\ RecordsOf(configs[1].outputId) = {}
    /\ RecordsOf(configs[2].outputId) # {}

(***************************************************************************)
(* C15.  Settings whose stepsPerBar, maxStepsPerClip or ppq is zero or     *)
(* negative are rejected before any transform runs: splitEventsBySteps     *)
(* produces no clips for them and does not start its window loop.          *)
(***************************************************************************)
InvalidSettings ==
    \/ settings.stepsPerBar <= 0
    \/ settings.maxStepsPerClip <= 0
    \/ settings.ppq <= 0

C15_InvalidSettingsRejected ==
    InvalidSettings => (pc \notin {"loop", "body"} /\ exported[1].splitEvents = <<>>)

(***************************************************************************)
(* C16.  splitEventsBySteps terminates on every finite event stream for    *)
(* every settings value it does not reject: its window loop ends after     *)
(* finitely many windows and the function returns.                         *)
(***************************************************************************)
C16_SplitTerminates == <>(pc = "returned")

\* with positive settings the loop always returns, within MaxChunks windows
SplitReturnsForPositiveSettings == (~InvalidSettings) => <>(pc = "returned")

\* the loop taken window by window returns what splitEventsBySteps returns
StepwiseSplitAgrees ==
    (pc = "returned" /\ ~InvalidSettings) =>
        exported[1].splitEvents =
            splitEventsBySteps(exported[1].mergedEvents, settings.maxStepsPerClip,
                               settings.ppq, settings.stepsPerBar)

\* with positive settings every window of the loop is recorded
PositiveSettingsStayBelowCap ==
    (~InvalidSettings /\ pc = "body") => Len(exported[1].splitEvents) < MaxChunks

(***************************************************************************)
(* C17.  For a stream that needs no splitting, decoding the output of      *)
(* writeMIDIFile gives back the same notes: the number of notes equals the *)
(* number of NoteOn events of the stream, and each note has the pitch and  *)
(* the start tick of its NoteOn.                                           *)
(***************************************************************************)
NoteOnsOf(events) ==
    LET IsOn(e) == e.type = "noteOn" IN SelectSeq(events, IsOn)

SameNotes(notes, noteOns) ==
    /\ Len(notes) = Len(noteOns)
    /\ \A k \in 1..Len(noteOns) :
          k <= Len(notes) =>
              /\ notes[k].midi = noteOns[k].note
              /\ notes[k].ticks = noteOns[k].absoluteTime

C17_RoundTripKeepsNotes ==
    Exported =>
        \A b \in 1..Len(exported) :
            ~WasSplit(exported[b]) =>
                SameNotes(DecodedNotes(exported[b].files[1].data),
                          NoteOnsOf(exported[b].mergedEvents))

\* the number of notes alone
C17_RoundTripKeepsNoteCount ==
    Exported =>
        \A b \in 1..Len(exported) :
            ~WasSplit(exported[b]) =>
                Len(DecodedNotes(exported[b].files[1].data))
                    = Len(NoteOnsOf(exported[b].mergedEvents))

(***************************************************************************)
(* C18.  writeMIDIFile computes each NoteOn's duration from the NoteOff    *)
(* that first-in-first-out matching pairs with it, the pairing of the      *)
(* splitter: for overlapping NoteOns of one (channel, note) the n-th       *)
(* NoteOn is paired with the n-th NoteOff of that pitch, and no two        *)
(* NoteOns are paired with the same NoteOff.                               *)
(***************************************************************************)
\* the noteOff time that the first-in-first-out lifecycle gives, as a sequence
FifoOffTime(events, lc) ==
    IF lc.off = 0 THEN <<>> ELSE <<events[lc.off].absoluteTime>>

WriterPairsAsFifo(events, track) ==
    \A lc \in FifoLifecycles(events) :
        \A k \in 1..Len(track.notes) :
            track.notes[k].event = lc.on =>
                track.notes[k].noteOffTime = FifoOffTime(events, lc)

C18_WriterPairsFifo ==
    Exported =>
        \A b \in 1..Len(exported) :
            \A c \in 1..Len(exported[b].splitEvents) :
                WriterPairsAsFifo(exported[b].splitEvents[c], exported[b].files[c].data)

(***************************************************************************)
(* C19.  Every musical event of a supported kind that reaches              *)
(* writeMIDIFile (noteOn, cc, programChange, pitchBend, key aftertouch,    *)
(* channel aftertouch) is written to the output file at its own tick; none *)
(* of these kinds is dropped or collapsed by the writer.                   *)
(***************************************************************************)
Written == pc = "written"

\* the output holds the event events[i] at the event's own tick.  The track of
\* the library has no place for aftertouch; a program change exists in it only
\* as instrument.number, which is serialised as one programChange at tick 0.
WrittenAtOwnTick(events, i, track) ==
    LET e == events[i] IN
    CASE e.type = "noteOn" ->
            \E k \in 1..Len(track.notes) :
                /\ track.notes[k].event = i
                /\ track.notes[k].midi = e.note
                /\ track.notes[k].ticks = e.absoluteTime
      [] e.type = "cc" ->
            \E k \in 1..Len(track.controlChanges) :
                /\ track.controlChanges[k].event = i
                /\ track.controlChanges[k].ticks = e.absoluteTime
      [] e.type = "pitchBend" ->
            \E k \in 1..Len(track.pitchBends) :
                /\ track.pitchBends[k].event = i
                /\ track.pitchBends[k].ticks = e.absoluteTime
      [] e.type = "programChange" ->
            track.instrument = e.program /\ e.absoluteTime = 0
      [] OTHER -> FALSE

SupportedKinds ==
    {"noteOn", "cc", "programChange", "pitchBend", "aftertouch", "channelAftertouch"}

C19_SupportedEventsWritten ==
    Written =>
        \A i \in 1..Len(exported[1].mergedEvents) :
            exported[1].mergedEvents[i].type \in SupportedKinds =>
                WrittenAtOwnTick(exported[1].mergedEvents, i, exported[1].files[1].data)

\* the kinds that the switch has a case for, at the resolution of the library
C19_CasesOfTheSwitchWritten ==
    (Written /\ settings.ppq = 2 * LibraryPPQ) =>
        \A i \in 1..Len(exported[1].mergedEvents) :
            ( /\ exported[1].mergedEvents[i].type \in {"noteOn", "cc", "pitchBend"}
              /\ ~AlreadyProcessed(exported[1].mergedEvents, i) ) =>
                WrittenAtOwnTick(exported[1].mergedEvents, i, exported[1].files[1].data)

(***************************************************************************)
(* C20.  Running merge, split and encode for several output buses over the *)
(* same parsed file, in any order or interleaving of the per-bus steps,    *)
(* gives every bus the same clips as running that bus alone, and leaves    *)
(* the parsed file's tracks and events unchanged.                          *)
(***************************************************************************)
\* the result of the bus when it is exported alone from the file as decoded
Alone(b) == ExportOfBus(parseMIDIFile(midi), configs[b], settings)

SameAsAlone(b) ==
    LET bus == exported[b] IN
    /\ bus.stage = "skipped" => Alone(b) = <<>>
    /\ bus.stage \in {"merged", "split", "encoded"} =>
          /\ Alone(b) # <<>>
          /\ bus.mergedEvents = Alone(b)[1].mergedEvents
    /\ bus.stage \in {"split", "encoded"} => bus.splitEvents = Alone(b)[1].splitEvents
    /\ bus.stage = "encoded" => bus.files = Alone(b)[1].files

C20_BusesIndependentFileUnchanged ==
    pc = "buses" =>
        /\ parsedMidi = parseMIDIFile(midi)
        /\ \A b \in 1..Len(exported) : SameAsAlone(b)

\* two buses that list the same track: the second went through all its steps
\* and has a split stream while the first is between its merge and its split
C20_Witness ==
    /\ pc = "buses"
    /\ \E t \in 0..1 : InList(t, configs[1].sourceTracks) /\ InList(t, configs[2].sourceTracks)
    /\ exported[1].stage = "merged"
    /\ exported[2].stage = "encoded"
    /\ Len(exported[2].splitEvents) > 1
    /\ Len(exported[2].files) = Len(exported[2].splitEvents)

(***************************************************************************)
(* C21.  mergeTracks leaves its inputs unchanged (every source track's     *)
(* event list and every source event's fields, deltaTime included, and the *)
(* output config), and every event it returns equals the source event it   *)
(* was copied from in every field except deltaTime.                        *)
(***************************************************************************)
\* the event object of the tracks that src names
SourceOf(tracks, src) == tracks[src[1] + 1].events[src[2]]

EqualButDeltaTime(copy, source) == [copy EXCEPT !.deltaTime = source.deltaTime] = source

C21_MergeLeavesInputsUnchanged ==
    [][(pc = "tracks" /\ pc' = "merged") =>
          /\ parsedMidi' = parsedMidi
          /\ configs' = configs
          /\ \A i \in 1..Len(exported'[1].mergedEvents) :
                LET e == exported'[1].mergedEvents[i]
                IN  /\ e.src # NoSrc
                    /\ EqualButDeltaTime(e, SourceOf(parsedMidi.tracks, e.src))]_vars

\* two tracks were merged and an event of the second got a deltaTime in the
\* merged stream that differs from the one it has in its track
C21_Witness ==
    /\ Merged
    /\ \E i \in 1..Len(exported[1].mergedEvents) :
          LET e == exported[1].mergedEvents[i]
          IN  /\ e.src[1] = 1
              /\ e.deltaTime # SourceOf(parsedMidi.tracks, e.src).deltaTime

(***************************************************************************)
(* C22.  For positive integer stepsPerBar, maxStepsPerClip and ppq and an  *)
(* input stream with integer ticks, every event in every clip returned by  *)
(* splitEventsBySteps has an integer absoluteTime and an integer           *)
(* deltaTime.  Clip times are held times stepsPerBar, so a time is an      *)
(* integer exactly when the number held is a multiple of stepsPerBar.      *)
(***************************************************************************)
IsIntegerTick(scaled) == scaled % settings.stepsPerBar = 0

IntegerTicks(clip) ==
    \A i \in 1..Len(clip) :
        IsIntegerTick(clip[i].absoluteTime) /\ IsIntegerTick(clip[i].deltaTime)

C22_ClipTicksAreIntegers ==
    Exported =>
        \A b \in 1..Len(exported) :
            \A c \in 1..Len(exported[b].splitEvents) :
                IntegerTicks(exported[b].splitEvents[c])

\* the ticks are integers whenever maxTicks = maxSteps * ppq * 4 / stepsPerBar is one
ClipTicksAreIntegersForWholeMaxTicks ==
    (Exported /\ IsIntegerTick(MaxTicksNow)) =>
        \A b \in 1..Len(exported) :
            \A c \in 1..Len(exported[b].splitEvents) :
                IntegerTicks(exported[b].splitEvents[c])

(***************************************************************************)
(* C23.  When splitEventsBySteps splits a stream under positive settings,  *)
(* every event in every returned clip, copied or synthesized, satisfies    *)
(* 0 <= absoluteTime < maxTicksPerClip and deltaTime >= 0.                 *)
(***************************************************************************)
InsideClip(e) ==
    /\ 0 <= e.absoluteTime
    /\ e.absoluteTime < MaxTicksNow
    /\ e.deltaTime >= 0

C23_ClipTimesInsideWindow ==
    Exported =>
        \A b \in 1..Len(exported) :
            WasSplit(exported[b]) =>
                \A c \in 1..Len(exported[b].splitEvents) :
                    \A i \in 1..Len(exported[b].splitEvents[c]) :
                        InsideClip(exported[b].splitEvents[c][i])

\* the times are inside the window whenever maxTicks is at least one tick
ClipTimesInsideWindowOfOneTick ==
    (Exported /\ MaxTicksNow >= settings.stepsPerBar) =>
        \A b \in 1..Len(exported) :
            WasSplit(exported[b]) =>
                \A c \in 1..Len(exported[b].splitEvents) :
                    \A i \in 1..Len(exported[b].splitEvents[c]) :
                        InsideClip(exported[b].splitEvents[c][i])

(***************************************************************************)
(* C24.  For an input stream in which every NoteOn of a (channel, note) is *)
(* followed by its NoteOff before the next NoteOn of that pitch, every     *)
(* clip returned by splitEventsBySteps is self-contained: for each         *)
(* (channel, note) the clip's NoteOn and NoteOff events alternate,         *)
(* starting with a NoteOn and ending with a NoteOff.                       *)
(***************************************************************************)
IsNoteEvent(e) == e.type \in {"noteOn", "noteOff"}

KeysOf(events) == {NoteKey(events[i]) : i \in {j \in 1..Len(events) : IsNoteEvent(events[j])}}

NoteEventsOf(events, key) ==
    LET OfKey(e) == IsNoteEvent(e) /\ NoteKey(e) = key IN SelectSeq(events, OfKey)

\* noteOn, noteOff, noteOn, noteOff, ...
Alternating(noteEvents) ==
    /\ Len(noteEvents) % 2 = 0
    /\ \A i \in 1..Len(noteEvents) :
          noteEvents[i].type = (IF i % 2 = 1 THEN "noteOn" ELSE "noteOff")

SelfContained(events) == \A key \in KeysOf(events) : Alternating(NoteEventsOf(events, key))

C24_ClipsSelfContained ==
    Exported =>
        \A b \in 1..Len(exported) :
            SelfContained(exported[b].mergedEvents) =>
                \A c \in 1..Len(exported[b].splitEvents) :
                    SelfContained(exported[b].splitEvents[c])

\* a noteOff of the stream at the first tick of a window after the first
OffAtWindowStart(bus) ==
    \E i \in 1..Len(bus.mergedEvents) :
        /\ bus.mergedEvents[i].type = "noteOff"
        /\ bus.mergedEvents[i].absoluteTime > 0
        /\ ScaledTime(bus.mergedEvents[i].absoluteTime) % MaxTicksNow = 0

\* the clips are self-contained when maxTicks is a whole number of ticks and no
\* noteOff of the stream is at the first tick of a window
ClipsSelfContainedAwayFromWindowStarts ==
    (Exported /\ IsIntegerTick(MaxTicksNow)) =>
        \A b \in 1..Len(exported) :
            (SelfContained(exported[b].mergedEvents) /\ ~OffAtWindowStart(exported[b])) =>
                \A c \in 1..Len(exported[b].splitEvents) :
                    SelfContained(exported[b].splitEvents[c])

(***************************************************************************)
(* C25.  After any sequence of handleAssignmentChange calls starting from  *)
(* an empty configuration, every source track index is in the sourceTracks *)
(* of at most one output config and at most once, no config has an empty   *)
(* sourceTracks list, the config keys are among A, B, C, D with outputId   *)
(* equal to the key, and getAssignment(t) returns the output most recently *)
(* assigned to t (None when unassigned).                                   *)
(***************************************************************************)
\* the places <<entry, position>> at which the configs list the track
PlacesOf(trackIndex) ==
    {<<k, i>> \in (1..Len(configs)) \X (1..NumTracks) :
        /\ i <= Len(configs[k].sourceTracks)
        /\ configs[k].sourceTracks[i] = trackIndex}

C25_AssignmentsConsistent ==
    pc = "inspector" =>
        /\ \A t \in TrackIndices : Cardinality(PlacesOf(t)) <= 1
        /\ \A k \in 1..Len(configs) :
              /\ Len(configs[k].sourceTracks) > 0
              /\ configs[k].key \in {"A", "B", "C", "D"}
              /\ configs[k].outputId = configs[k].key
              /\ \A j \in 1..Len(configs) : configs[j].key = configs[k].key => j = k
        /\ \A t \in TrackIndices : getAssignment(configs, t) = assigned[t]

\* output B was created before output A and A took two tracks, the second
\* of the file before the first
C25_Witness ==
    /\ pc = "inspector"
    /\ Len(configs) = 2
    /\ configs[1].key = "B"
    /\ configs[2].key = "A"
    /\ configs[2].sourceTracks = <<1, 0>>
    /\ assigned = [t \in TrackIndices |-> IF t = 2 THEN "B" ELSE "A"]

(***************************************************************************)
(* C26.  For every configured bus whose merged stream is non-empty, the    *)
(* number of clips the SummaryPanel shows for the bus equals the number of *)
(* clips splitEventsBySteps returns for that bus at export, and the        *)
(* panel's total file count equals the number of MIDI files exported.      *)
(***************************************************************************)
RECURSIVE FilesUpTo(_)
FilesUpTo(n) == IF n = 0 THEN 0 ELSE FilesUpTo(n - 1) + Len(exported[n].files)

\* the number of ExportFile records pushed by handleExport
ExportedFileCount == FilesUpTo(Len(exported))

C26_SummaryMatchesExport ==
    Exported =>
        /\ \A b \in 1..Len(exported) :
              clipsNeeded(parsedMidi, settings) = Len(exported[b].splitEvents)
        /\ totalFiles(configs, parsedMidi, settings) = ExportedFileCount

\* the panel is right for a single bus that holds the longest track of a file
\* whose last tick is not 0
SummaryMatchesExportOfLongestBus ==
    (Exported /\ Len(configs) = 1 /\ Len(exported) = 1 /\ parsedMidi.duration > 0) =>
        (TotalTicks(exported[1]) = parsedMidi.duration =>
            /\ clipsNeeded(parsedMidi, settings) = Len(exported[1].splitEvents)
            /\ totalFiles(configs, parsedMidi, settings) = ExportedFileCount)

(***************************************************************************)
(* C27.  On an initialized MidiPlayer, under any sequence of play, pause,  *)
(* stop, seek calls and scheduler timer firings, at most one scheduler     *)
(* timeout is pending at any time.                                         *)
(***************************************************************************)
C27_AtMostOneTimeoutPending ==
    pc = "player" => Cardinality(timeouts) <= 1

(***************************************************************************)
(* C28.  After MidiPlayer.seek(t), every track's nextEventIndex equals the *)
(* number of that track's scheduled events whose time is less than t       *)
(* clamped to [0, duration], so playback resumed after the seek plays no   *)
(* event whose start time is before the seek position.  The index that     *)
(* seek leaves is read on a player that is not playing, where seek does    *)
(* not go on to run the scheduler.                                         *)
(***************************************************************************)
EventsBefore(events, time) == Cardinality({i \in 1..Len(events) : events[i].time < time})

C28_SeekSkipsEventsBeforeTarget ==
    [][\A seconds \in SeekChoices :
          (~player.isPlaying /\ Seek(seconds)) =>
              \A t \in 1..Len(player.tracks) :
                  player'.tracks[t].nextEventIndex =
                      EventsBefore(player.tracks[t].events,
                                   ClampToDuration(seconds, player.duration))]_vars

\* the index is right when some event of the track is at or after the target
SeekSkipsEventsBeforeTargetInsideTrack ==
    [][\A seconds \in SeekChoices :
          (~player.isPlaying /\ Seek(seconds)) =>
              \A t \in 1..Len(player.tracks) :
                  (\E i \in 1..Len(player.tracks[t].events) :
                      player.tracks[t].events[i].time >=
                          ClampToDuration(seconds, player.duration)) =>
                  player'.tracks[t].nextEventIndex =
                      EventsBefore(player.tracks[t].events,
                                   ClampToDuration(seconds, player.duration))]_vars

(***************************************************************************)
(* C29.  During playback, an event whose scheduled time passes while its   *)
(* track is inaudible (muted with no solo active, or not soloed while      *)
(* another track is soloed) is never played later in the same playback     *)
(* pass after the track becomes audible again.                             *)
(***************************************************************************)
C29_MissedEventsStayUnplayed ==
    pc = "player" => missed \cap played = {}

(***************************************************************************)
(* C30.  Under any interleaving of file changes (effect cleanup followed   *)
(* by a new initPlayer) with the completion of asynchronous instrument     *)
(* loads, isInitialized is true only when the player currently held in     *)
(* playerRef has finished initialize for the current parsedMidi; the       *)
(* continuation of a stale initPlayer never sets isInitialized, isLoading, *)
(* duration or trackStates for a newer file.                               *)
(***************************************************************************)
\* the player in playerRef has finished initialize for the file of the prop
PlayerReady ==
    /\ hook.playerRef # 0
    /\ hook.parsedMidi # 0
    /\ LET p == hook.players[hook.playerRef]
       IN  p.midi = hook.parsedMidi /\ p.audioContext /\ p.tracksLoaded /\ p.returned

C30_InitializedOnlyWhenPlayerReady ==
    pc = "hook" =>
        /\ hook.isInitialized => PlayerReady
        /\ ~hook.staleWrite

\* when one file is selected and no other follows, isInitialized tells that
\* the player is ready
InitializedOnlyWhenPlayerReadyForOneFile ==
    (pc = "hook" /\ hook.lastFile <= 1) =>
        /\ hook.isInitialized => PlayerReady
        /\ ~hook.staleWrite

====
